---- MODULE Spec2Model ----
(***************************************************************************)
(* LinguaLabel front-end: the client session kept in localStorage          *)
(* (lib/auth.ts), the two API clients built on fetchApi (lib/api.ts and    *)
(* its bearer-token revision), the DashboardLayout gate and the pages      *)
(* that submit operations (login, create project, signup, withdrawal).     *)
(*                                                                         *)
(* An async function is a process: one action per stretch of code between  *)
(* two awaits.  A response is chosen by the environment at the step that   *)
(* receives it.                                                            *)
(***************************************************************************)
EXTENDS Integers, Sequences, FiniteSets, TLC

VARIABLES
    storage,      \* localStorage: [token, user] under TOKEN_KEY / USER_KEY
    authCalls,    \* the calls of login / register / getCurrentUser in flight
    sessionDead,  \* history: the session was destroyed and no call started since has stored credentials
    apiCall,      \* the call of an api.* function (fetchApi) in flight
    layout,       \* DashboardLayout: its React state and pending navigation
    route,        \* the page the browser tab shows
    ep,           \* EarningsPage: its React state
    runs,         \* the invocations of handleWithdraw in progress
    bank,         \* payments backend: the annotator's balances and connected account
    hist,         \* history: handleWithdraw invocations, payouts since the amount was entered
    lp,           \* LoginPage: its React state
    pp,           \* ProjectsPage: its React state
    cm,           \* CreateProjectModal: its React state
    sp,           \* SignupPage: its React state
    projects,     \* backend: the Project records, by id
    tasks,        \* backend: the Task records, in creation order
    reply,        \* backend: the answer to the last project / task operation
    claimReqs,    \* backend: the claimTask requests being handled
    ext,          \* the external annotation tool: the projects and tasks it holds
    syncRun       \* backend: the sync request being handled

sessionVars == <<storage, authCalls, sessionDead, apiCall, layout>>

earningsVars == <<ep, runs, bank, hist>>

formVars == <<lp, pp, cm, sp>>

backVars == <<projects, tasks, reply, claimReqs, ext, syncRun>>

pageVars == <<route, earningsVars, formVars, backVars>>

vars == <<sessionVars, pageVars>>

Null == "null"

\* ------------------------------------------------------------------ bounds
MaxAuthCalls == 2

AuthCallIds == 1..MaxAuthCalls

\* ------------------------------------------------------- accounts, server
Accounts == {"A", "B"}

RoleOf(a) == IF a = "A" THEN "annotator" ELSE "client"

\* access_token the auth service issues for an account
TokenOf(a) == IF a = "A" THEN "tokA" ELSE "tokB"

AccountOf(t) == IF t = "tokA" THEN "A" ELSE "B"

Tokens == {TokenOf(a) : a \in Accounts}

\* a User object; NoUser stands for null
NoUser == [id |-> Null, role |-> Null, access_token |-> Null]

\* GET /api/auth/me: the profile the token resolves to
ProfileOf(t) == [id |-> AccountOf(t), role |-> RoleOf(AccountOf(t)), access_token |-> Null]

\* POST /api/auth/register: token + profile in one object (User & AuthResponse)
RegisterResult(a) == [id |-> a, role |-> RoleOf(a), access_token |-> TokenOf(a)]

\* Response bodies of a non-2xx answer: the error envelope {"detail": d},
\* a JSON object without detail, or a body that is not JSON at all.
Details == {"Invalid credentials"}

NoBody == [kind |-> "none", detail |-> Null]

ErrorBodies == {[kind |-> "json", detail |-> d] : d \in Details}
               \cup {[kind |-> "json", detail |-> Null], [kind |-> "text", detail |-> Null]}

ErrorStatuses == {401, 500}

\* ------------------------------------------------------------ lib/auth.ts
\* a localStorage item: <<>> when the key is absent, else the string written
JSONstringify(v) == <<"json", v>>

\* JSON.parse: the value of a string JSON.stringify wrote, a SyntaxError otherwise
JSONparse(s) == IF Len(s) = 2 /\ s[1] = "json" THEN [ok |-> TRUE, value |-> s[2]]
                ELSE [ok |-> FALSE, value |-> NoUser]

getToken(st) == st.token

setToken(st, t) == [st EXCEPT !.token = t]

removeToken(st) == [token |-> Null, user |-> <<>>]

getStoredUser(st) ==
    IF st.user = <<>> THEN NoUser
    ELSE IF JSONparse(st.user).ok THEN JSONparse(st.user).value ELSE NoUser

setStoredUser(st, u) == [st EXCEPT !.user = JSONstringify(u)]

isAuthenticated(st) == getToken(st) /= Null

\* the message of the SyntaxError response.json() throws on a body that is not JSON
SyntaxErrorMessage == "Unexpected token < in JSON"

\* register(): const error = await response.json(); throw new Error(error.detail || "Registration failed")
RegisterError(body) ==
    IF body.kind /= "json" THEN SyntaxErrorMessage
    ELSE IF body.detail /= Null THEN body.detail ELSE "Registration failed"

\* login(): const error = await response.json(); throw new Error(error.detail || "Login failed")
LoginError(body) ==
    IF body.kind /= "json" THEN SyntaxErrorMessage
    ELSE IF body.detail /= Null THEN body.detail ELSE "Login failed"

IdleCall == [op |-> "idle", pc |-> "idle", account |-> Null, token |-> Null,
             stale |-> FALSE, sent |-> 0, status |-> 0, body |-> NoBody, result |-> Null,
             message |-> Null]

\* a call that settled: how the promise ended, and the answer that decided it
Settle(call, res, msg, status, body) ==
    [call EXCEPT !.pc = "settled", !.result = res, !.message = msg,
                 !.status = status, !.body = body]

\* every call in flight when the session is destroyed started before that
MarkStale(calls) == [c \in DOMAIN calls |-> [calls[c] EXCEPT !.stale = (calls[c].op /= "idle")]]

\* login(data), up to its first await: POST /api/auth/login is sent
LoginStart(c, a) ==
    /\ authCalls[c].op = "idle"
    /\ authCalls' = [authCalls EXCEPT ![c] =
           [IdleCall EXCEPT !.op = "login", !.pc = "login_fetch", !.account = a, !.sent = 1]]
    /\ UNCHANGED <<storage, sessionDead, apiCall, layout, pageVars>>

\* login(): a non-2xx answer throws
LoginFails(c) ==
    /\ authCalls[c].pc = "login_fetch"
    /\ \E status \in ErrorStatuses, body \in ErrorBodies :
           authCalls' = [authCalls EXCEPT ![c] =
               Settle(authCalls[c], "rejected", LoginError(body), status, body)]
    /\ UNCHANGED <<storage, sessionDead, apiCall, layout, pageVars>>

\* login(): a 2xx answer: setToken(result.access_token), then getCurrentUser()
\* runs to its fetch of /api/auth/me with the token it reads back
LoginTokenStored(c) ==
    /\ authCalls[c].pc = "login_fetch"
    /\ LET st == setToken(storage, TokenOf(authCalls[c].account)) IN
       /\ storage' = st
       /\ authCalls' = [authCalls EXCEPT ![c] =
              [authCalls[c] EXCEPT !.pc = "me_fetch", !.token = getToken(st),
                                   !.sent = authCalls[c].sent + 1]]
    /\ sessionDead' = (sessionDead /\ authCalls[c].stale)
    /\ UNCHANGED <<apiCall, layout, pageVars>>

\* register(data), up to its first await: POST /api/auth/register is sent
RegisterStart(c, a) ==
    /\ authCalls[c].op = "idle"
    /\ authCalls' = [authCalls EXCEPT ![c] =
           [IdleCall EXCEPT !.op = "register", !.pc = "register_fetch", !.account = a, !.sent = 1]]
    /\ UNCHANGED <<storage, sessionDead, apiCall, layout, pageVars>>

\* a rejected registration that also signs the user out
RegisterFailsSignsOut(c) ==
    /\ authCalls[c].pc = "register_fetch"
    /\ \E status \in ErrorStatuses, body \in ErrorBodies :
           authCalls' = [authCalls EXCEPT ![c] =
               Settle(authCalls[c], "rejected", RegisterError(body), status, body)]
    /\ storage' = removeToken(storage)
    /\ UNCHANGED <<sessionDead, apiCall, layout, pageVars>>

\* register(): a non-2xx answer throws
RegisterFails(c) ==
    /\ authCalls[c].pc = "register_fetch"
    /\ \E status \in ErrorStatuses, body \in ErrorBodies :
           authCalls' = [authCalls EXCEPT ![c] =
               Settle(authCalls[c], "rejected", RegisterError(body), status, body)]
    /\ UNCHANGED <<storage, sessionDead, apiCall, layout, pageVars>>

\* register(): a 2xx answer: setToken(result.access_token); setStoredUser(result)
RegisterStored(c) ==
    /\ authCalls[c].pc = "register_fetch"
    /\ LET result == RegisterResult(authCalls[c].account) IN
       storage' = setStoredUser(setToken(storage, result.access_token), result)
    /\ authCalls' = [authCalls EXCEPT ![c] =
           Settle(authCalls[c], "resolved", Null, 200, NoBody)]
    /\ sessionDead' = (sessionDead /\ authCalls[c].stale)
    /\ UNCHANGED <<apiCall, layout, pageVars>>

\* getCurrentUser() called on its own, up to its first await: without a token
\* it returns null at once, else GET /api/auth/me is sent with the token
GetCurrentUserStart(c) ==
    /\ authCalls[c].op = "idle"
    /\ authCalls' = [authCalls EXCEPT ![c] =
           IF getToken(storage) = Null
           THEN Settle([IdleCall EXCEPT !.op = "getCurrentUser"], "resolved", Null, 0, NoBody)
           ELSE [IdleCall EXCEPT !.op = "getCurrentUser", !.pc = "me_fetch",
                                 !.token = getToken(storage), !.sent = 1]]
    /\ UNCHANGED <<storage, sessionDead, apiCall, layout, pageVars>>

\* getCurrentUser(): a 2xx answer returns the profile; inside login() the
\* caller then runs setStoredUser(user) and returns
MeOk(c) ==
    /\ authCalls[c].pc = "me_fetch"
    /\ storage' = IF authCalls[c].op = "login"
                  THEN setStoredUser(storage, ProfileOf(authCalls[c].token))
                  ELSE storage
    /\ authCalls' = [authCalls EXCEPT ![c] =
           Settle(authCalls[c], "resolved", Null, 200, NoBody)]
    /\ UNCHANGED <<sessionDead, apiCall, layout, pageVars>>

\* getCurrentUser(): a non-2xx answer returns null, and a 401 first runs
\* removeToken(); inside login() nothing more is stored and login() returns
MeFails(c) ==
    /\ authCalls[c].pc = "me_fetch"
    /\ \E status \in ErrorStatuses, body \in ErrorBodies :
        /\ storage' = IF status = 401 THEN removeToken(storage) ELSE storage
        /\ authCalls' = [IF status = 401 THEN MarkStale(authCalls) ELSE authCalls
                            EXCEPT ![c] = Settle(@, "resolved", Null, status, body)]
        /\ sessionDead' = (sessionDead \/ status = 401)
    /\ UNCHANGED <<apiCall, layout, pageVars>>

\* logout(): removeToken()
Logout ==
    /\ storage' = removeToken(storage)
    /\ authCalls' = MarkStale(authCalls)
    /\ sessionDead' = TRUE
    /\ UNCHANGED <<apiCall, layout, pageVars>>

\* the caller takes the settled promise's outcome
AuthReturn(c) ==
    /\ authCalls[c].pc = "settled"
    /\ authCalls' = [authCalls EXCEPT ![c] = IdleCall]
    /\ UNCHANGED <<storage, sessionDead, apiCall, layout, pageVars>>

AuthStep(c) ==
    \/ \E a \in Accounts : LoginStart(c, a)
    \/ LoginFails(c)
    \/ LoginTokenStored(c)
    \/ \E a \in Accounts : RegisterStart(c, a)
    \/ RegisterFails(c)
    \/ RegisterStored(c)
    \/ GetCurrentUserStart(c)
    \/ MeOk(c)
    \/ MeFails(c)
    \/ AuthReturn(c)

\* --------------------------------------------------- the two API clients
\* api.* functions of the client in lib/api.ts (no bearer token support)
LegacyFunctions == {"health", "getLanguages", "getLanguage", "getLanguagesByRegion",
                    "createAnnotator", "getAnnotators", "getAnnotator",
                    "createProject", "getProjects", "getProject", "getStats"}

\* api.* functions of the client revised to send the bearer token
BearerFunctions == LegacyFunctions \cup
                   {"updateProject", "deleteProject", "activateProject",
                    "addTasks", "getTasks", "syncWithLabelStudio"}

\* the functions that pass { authenticated: false } to fetchApi
AuthenticatedFalse == {"health", "getLanguages", "getLanguage", "getLanguagesByRegion",
                       "createAnnotator", "getAnnotators", "getAnnotator", "getStats"}

\* getStoredToken(), imported from ./auth: the stored bearer token
getStoredToken(st) == st.token

\* the Authorization header fetchApi puts on the request (Null: none)
LegacyAuthorization(fn, st) == Null

BearerAuthorization(fn, st) ==
    IF fn \notin AuthenticatedFalse /\ getStoredToken(st) /= Null
    THEN getStoredToken(st) ELSE Null

Authorization(client, fn, st) ==
    IF client = "legacy" THEN LegacyAuthorization(fn, st) ELSE BearerAuthorization(fn, st)

\* fetchApi on a non-2xx answer:
\*   const error = await response.json().catch(() => ({detail: "An error occurred"}));
\*   throw new Error(error.detail)
\* (new Error(undefined) has the empty message)
FetchApiError(body) ==
    IF body.kind /= "json" THEN "An error occurred"
    ELSE IF body.detail /= Null THEN body.detail ELSE ""

IdleApi == [client |-> Null, fn |-> Null, pc |-> "idle", authorization |-> Null,
            tokenAtSend |-> Null, origin |-> Null, gate |-> NoUser,
            sent |-> 0, status |-> 0, body |-> NoBody, result |-> Null, message |-> Null,
            payload |-> <<>>]

\* the functions the pages under /dashboard call (lib/api.ts)
DashboardFunctions == {"getStats", "getProjects", "getLanguages", "createProject"}

\* what DashboardLayout renders: its children, or the loading placeholder
ChildrenRendered(l) == l.mounted /\ ~l.isLoading

\* fetchApi(endpoint, options), up to its await of fetch: the request is sent
ApiStart(client, fn, origin) ==
    /\ apiCall.pc = "idle"
    /\ origin = "dashboard" => ChildrenRendered(layout) /\ client = "legacy" /\ fn \in DashboardFunctions
    /\ apiCall' = [IdleApi EXCEPT !.client = client, !.fn = fn, !.pc = "awaiting",
                      !.authorization = Authorization(client, fn, storage),
                      !.tokenAtSend = storage.token,
                      !.origin = origin,
                      !.gate = IF origin = "dashboard" THEN layout.user ELSE NoUser,
                      !.sent = 1]
    /\ UNCHANGED <<storage, authCalls, sessionDead, layout, pageVars>>

\* fetchApi: a 2xx answer returns response.json()
ApiOk ==
    /\ apiCall.pc = "awaiting"
    /\ apiCall' = [apiCall EXCEPT !.pc = "settled", !.result = "resolved", !.status = 200,
                      !.authorization = Null, !.tokenAtSend = Null, !.payload = <<>>]
    /\ UNCHANGED <<storage, authCalls, sessionDead, layout, pageVars>>

\* fetchApi: a non-2xx answer throws
ApiFails ==
    /\ apiCall.pc = "awaiting"
    /\ \E status \in ErrorStatuses, body \in ErrorBodies :
           apiCall' = [apiCall EXCEPT !.pc = "settled", !.result = "rejected",
                          !.message = FetchApiError(body), !.status = status, !.body = body,
                          !.authorization = Null, !.tokenAtSend = Null, !.payload = <<>>]
    /\ UNCHANGED <<storage, authCalls, sessionDead, layout, pageVars>>

ApiReturn ==
    /\ apiCall.pc = "settled"
    /\ apiCall' = IdleApi
    /\ UNCHANGED <<storage, authCalls, sessionDead, layout, pageVars>>

ApiSettle == ApiOk \/ ApiFails \/ ApiReturn

\* ------------------------------------------------------- DashboardLayout
Unmounted == [mounted |-> FALSE, user |-> NoUser, isLoading |-> TRUE,
              effectRan |-> FALSE, found |-> FALSE, nav |-> Null]

\* /dashboard is visited: the first render, with the useState defaults
LayoutMount ==
    /\ ~layout.mounted
    /\ layout' = [Unmounted EXCEPT !.mounted = TRUE]
    /\ UNCHANGED <<storage, authCalls, sessionDead, apiCall, pageVars>>

\* LayoutEffect without the early return: loading ends whether or not a user was found
LayoutEffectNoReturn ==
    /\ layout.mounted /\ ~layout.effectRan
    /\ LET storedUser == getStoredUser(storage) IN
       layout' = [layout EXCEPT !.effectRan = TRUE, !.found = (storedUser /= NoUser),
                                !.nav = IF storedUser = NoUser THEN "/login" ELSE Null,
                                !.user = storedUser, !.isLoading = FALSE]
    /\ UNCHANGED <<storage, authCalls, sessionDead, apiCall, pageVars>>

\* the useEffect: without a stored user router.push("/login") and return,
\* else setUser(storedUser); setIsLoading(false)
LayoutEffect ==
    /\ layout.mounted /\ ~layout.effectRan
    /\ LET storedUser == getStoredUser(storage) IN
       layout' = IF storedUser = NoUser
                 THEN [layout EXCEPT !.effectRan = TRUE, !.nav = "/login"]
                 ELSE [layout EXCEPT !.effectRan = TRUE, !.found = TRUE,
                                     !.user = storedUser, !.isLoading = FALSE]
    /\ UNCHANGED <<storage, authCalls, sessionDead, apiCall, pageVars>>

\* handleLogout (the Sign Out button, rendered with the children): logout(); router.push("/")
HandleLogout ==
    /\ ChildrenRendered(layout)
    /\ storage' = removeToken(storage)
    /\ authCalls' = MarkStale(authCalls)
    /\ sessionDead' = TRUE
    /\ layout' = [layout EXCEPT !.nav = "/"]
    /\ UNCHANGED <<apiCall, pageVars>>

\* the navigation router.push started leaves /dashboard: the layout unmounts
LayoutLeave ==
    /\ layout.mounted /\ layout.nav /= Null
    /\ layout' = Unmounted
    /\ UNCHANGED <<storage, authCalls, sessionDead, apiCall, pageVars>>

LayoutStep == LayoutMount \/ LayoutEffect \/ HandleLogout \/ LayoutLeave

\* ------------------------------------------------- numbers and their text
\* Amounts are counted in cents; a text is a sequence of characters.
DigitChars == <<"0", "1", "2", "3", "4", "5", "6", "7", "8", "9">>

IsDigit(ch) == \E d \in 1..10 : DigitChars[d] = ch

DigitVal(ch) == (CHOOSE d \in 1..10 : DigitChars[d] = ch) - 1

\* the first position from i on that holds no digit
RECURSIVE DigitsEnd(_, _)
DigitsEnd(s, i) == IF i <= Len(s) /\ IsDigit(s[i]) THEN DigitsEnd(s, i + 1) ELSE i

\* the number the digits s[i..j-1] write
RECURSIVE DigitsValue(_, _, _)
DigitsValue(s, i, j) ==
    IF j <= i THEN 0 ELSE DigitsValue(s, i, j - 1) * 10 + DigitVal(s[j - 1])

NaN == [nan |-> TRUE, cents |-> 0]

\* parseFloat: an optional sign, digits, an optional point and digits; what
\* follows is ignored, and a text that starts with no number is NaN.  The
\* amounts entered have at most two decimals.
parseFloat(s) ==
    LET signed  == Len(s) >= 1 /\ s[1] \in {"-", "+"}
        i0      == IF signed THEN 2 ELSE 1
        i1      == DigitsEnd(s, i0)
        point   == i1 <= Len(s) /\ s[i1] = "."
        f0      == IF point THEN i1 + 1 ELSE i1
        f1      == IF point THEN DigitsEnd(s, f0) ELSE f0
        whole   == DigitsValue(s, i0, i1)
        tenths  == IF f1 > f0 THEN DigitVal(s[f0]) ELSE 0
        hundrs  == IF f1 > f0 + 1 THEN DigitVal(s[f0 + 1]) ELSE 0
        mag     == whole * 100 + tenths * 10 + hundrs
    IN  IF i1 = i0 /\ f1 = f0 THEN NaN
        ELSE [nan |-> FALSE, cents |-> IF signed /\ s[1] = "-" THEN 0 - mag ELSE mag]

isNaN(x) == x.nan

RECURSIVE IntToChars(_)
IntToChars(n) == IF n < 10 THEN <<DigitChars[n + 1]>>
                 ELSE IntToChars(n \div 10) \o <<DigitChars[(n % 10) + 1]>>

\* Number.prototype.toString of an amount >= 0: 1, 0.1, 0.15
NumberToString(cents) ==
    LET c == cents % 100 IN
    IntToChars(cents \div 100) \o
        (IF c = 0 THEN <<>>
         ELSE IF c % 10 = 0 THEN <<".", DigitChars[(c \div 10) + 1]>>
         ELSE <<".", DigitChars[(c \div 10) + 1], DigitChars[(c % 10) + 1]>>)

\* Number.prototype.toFixed(2)
toFixed2(cents) ==
    LET c == cents % 100 IN
    IntToChars(cents \div 100) \o <<".", DigitChars[(c \div 10) + 1], DigitChars[(c % 10) + 1]>>

\* --------------------------------------------------- the payments backend
\* price_per_task of the projects the client signup creates: $0.10
PricePerTask == 10

\* tasks approved for the annotator in a run of the model
MaxEarned == 2

\* getEarnings: the Earnings snapshot
EarningsOf(b) == [total_earned |-> b.total_earned, pending |-> b.pending,
                  available |-> b.available, currency |-> "USD"]

\* getConnectStatus: the connected account's state; without an account the
\* default "not connected" status with a prompt
StatusOf(account) ==
    IF account = "none"
    THEN [account_id |-> Null, is_connected |-> FALSE, charges_enabled |-> FALSE,
          payouts_enabled |-> FALSE, details_submitted |-> FALSE,
          requirements_due |-> <<>>, message |-> "Connect your account to receive payouts"]
    ELSE IF account = "restricted"
    THEN [account_id |-> "acct_1", is_connected |-> TRUE, charges_enabled |-> FALSE,
          payouts_enabled |-> FALSE, details_submitted |-> FALSE,
          requirements_due |-> <<"external_account">>, message |-> "Additional information required"]
    ELSE [account_id |-> "acct_1", is_connected |-> TRUE, charges_enabled |-> TRUE,
          payouts_enabled |-> TRUE, details_submitted |-> TRUE,
          requirements_due |-> <<>>, message |-> "Account ready"]

NoResponse == [kind |-> "none", text |-> "", earnings |-> <<>>]

\* requestWithdrawal(annotatorId, amount): ValidationError if amount <= 0 or
\* amount > available, PreconditionError if payouts are not enabled, else a
\* payout is initiated and available decremented
WithdrawalAnswer(b, amount) ==
    IF amount <= 0 \/ amount > b.available
    THEN [kind |-> "error", text |-> "Invalid withdrawal amount", earnings |-> <<>>]
    ELSE IF ~StatusOf(b.account).payouts_enabled
    THEN [kind |-> "error", text |-> "Payouts are not enabled", earnings |-> <<>>]
    ELSE [kind |-> "ok", text |-> "Withdrawal initiated", earnings |-> <<>>]

AfterWithdrawal(b, amount) ==
    IF WithdrawalAnswer(b, amount).kind = "ok"
    THEN [b EXCEPT !.available = b.available - amount, !.payouts = b.payouts + 1]
    ELSE b

\* submitTask: the task's price becomes pending earnings of its annotator
TaskSubmitted ==
    /\ bank.total_earned + bank.pending < MaxEarned * PricePerTask
    /\ bank' = [bank EXCEPT !.pending = bank.pending + PricePerTask]
    /\ UNCHANGED <<backVars, sessionVars, formVars, route, ep, runs, hist>>

\* reviewTask(approve): the task's value moves from pending to available
TaskApproved ==
    /\ bank.pending >= PricePerTask
    /\ bank' = [bank EXCEPT !.pending = bank.pending - PricePerTask,
                            !.available = bank.available + PricePerTask,
                            !.total_earned = bank.total_earned + PricePerTask]
    /\ UNCHANGED <<backVars, sessionVars, formVars, route, ep, runs, hist>>

\* the payment processor changes the connected account's state
AccountUpdated ==
    /\ \E a \in {"restricted", "enabled"} : a /= bank.account /\ bank' = [bank EXCEPT !.account = a]
    /\ UNCHANGED <<backVars, sessionVars, formVars, route, ep, runs, hist>>

\* ----------------------------------------------------------- EarningsPage
\* the text an <input> can hold; the handler does not rely on type="number"
AmountInputs == {<<>>, <<"x">>, <<"0">>, <<"-", "1">>, <<".", "1">>, <<".", "2">>,
                 <<".", "0", "5">>, <<"1">>}

\* invocations of handleWithdraw that can be in progress at once
MaxRuns == 2

RunIds == 1..MaxRuns

NoMessage == [type |-> Null, text |-> <<>>]

ErrorMessage(text) == [type |-> "error", text |-> text]

SuccessMessage(text) == [type |-> "success", text |-> text]

IdleRun == [pc |-> "idle", amount |-> 0, accepted |-> FALSE, resp |-> NoResponse]

\* the useState defaults
EarningsUnmounted ==
    [mounted |-> FALSE, user |-> NoUser, connectStatus |-> <<>>, earnings |-> <<>>,
     isLoading |-> TRUE, isWithdrawing |-> FALSE, withdrawAmount |-> <<>>,
     message |-> NoMessage, loadPc |-> "idle"]

\* the defaults loadData sets when the payment data cannot be loaded
DefaultConnectStatus ==
    [account_id |-> Null, is_connected |-> FALSE, charges_enabled |-> FALSE,
     payouts_enabled |-> FALSE, details_submitted |-> FALSE, requirements_due |-> <<>>,
     message |-> "Complete your annotator profile to access payments"]

DefaultEarnings == [total_earned |-> 0, pending |-> 0, available |-> 0, currency |-> "USD"]

\* connectStatus?.payouts_enabled
PayoutsEnabled(e) == e.connectStatus /= <<>> /\ e.connectStatus[1].payouts_enabled

\* earnings?.available, with 0 for undefined
Available(e) == IF e.earnings = <<>> THEN 0 ELSE e.earnings[1].available

isAnnotator(e) == e.user.role = "annotator"

\* the annotator view is rendered
AnnotatorView(e) == e.mounted /\ ~e.isLoading /\ isAnnotator(e)

\* the withdraw form rendered without looking at connectStatus
WithdrawFormAnyStatus(e) ==
    AnnotatorView(e) /\ e.earnings /= <<>> /\ Available(e) > 0

\* {connectStatus?.payouts_enabled && earnings && earnings.available > 0 && (<the withdraw form>)}
WithdrawFormRendered(e) ==
    AnnotatorView(e) /\ PayoutsEnabled(e) /\ e.earnings /= <<>> /\ Available(e) > 0

\* the form's Withdraw button: disabled={isWithdrawing || !withdrawAmount}
WithdrawButtonEnabled(e) ==
    WithdrawFormRendered(e) /\ ~e.isWithdrawing /\ e.withdrawAmount /= <<>>

\* the page is shown: first render, and loadData up to its await
EarningsMount ==
    /\ route = "earnings" /\ ~ep.mounted
    /\ LET storedUser == getStoredUser(storage) IN
       ep' = IF storedUser.role = "annotator"
             THEN [EarningsUnmounted EXCEPT !.mounted = TRUE, !.user = storedUser,
                                            !.loadPc = "loading"]
             ELSE [EarningsUnmounted EXCEPT !.mounted = TRUE, !.user = storedUser,
                                            !.isLoading = FALSE, !.loadPc = "done"]
    /\ UNCHANGED <<backVars, sessionVars, formVars, route, runs, bank, hist>>

\* loadData: both getConnectStatus() and getEarnings() answered
LoadDataOk ==
    /\ ep.loadPc = "loading"
    /\ ep' = [ep EXCEPT !.connectStatus = <<StatusOf(bank.account)>>,
                        !.earnings = <<EarningsOf(bank)>>,
                        !.isLoading = FALSE, !.loadPc = "done"]
    /\ UNCHANGED <<backVars, sessionVars, formVars, route, runs, bank, hist>>

\* loadData whose catch sets nothing and lets the error escape
LoadDataFailsRethrown ==
    /\ ep.loadPc = "loading"
    /\ ep' = [ep EXCEPT !.loadPc = "done"]
    /\ UNCHANGED <<backVars, sessionVars, formVars, route, runs, bank, hist>>

\* loadData: one of the two calls rejected: the defaults are set
LoadDataFails ==
    /\ ep.loadPc = "loading"
    /\ ep' = [ep EXCEPT !.connectStatus = <<DefaultConnectStatus>>,
                        !.earnings = <<DefaultEarnings>>,
                        !.isLoading = FALSE, !.loadPc = "done"]
    /\ UNCHANGED <<backVars, sessionVars, formVars, route, runs, bank, hist>>

\* the amount input's onChange: setWithdrawAmount(e.target.value)
SetWithdrawAmount(s) ==
    /\ WithdrawFormRendered(ep)
    /\ s /= ep.withdrawAmount
    /\ ep' = [ep EXCEPT !.withdrawAmount = s]
    /\ hist' = [hist EXCEPT !.payoutsForEntry = 0]
    /\ UNCHANGED <<backVars, sessionVars, formVars, route, runs, bank>>

\* the Withdraw button of the balance card:
\*   disabled={!connectStatus?.payouts_enabled || !earnings?.available || earnings.available <= 0}
\*   onClick: if (earnings?.available && earnings.available > 0) setWithdrawAmount(earnings.available.toString())
WithdrawShortcut ==
    /\ AnnotatorView(ep) /\ PayoutsEnabled(ep) /\ Available(ep) > 0
    /\ ep.withdrawAmount /= NumberToString(Available(ep))
    /\ ep' = [ep EXCEPT !.withdrawAmount = NumberToString(Available(ep))]
    /\ hist' = [hist EXCEPT !.payoutsForEntry = 0]
    /\ UNCHANGED <<backVars, sessionVars, formVars, route, runs, bank>>

\* handleWithdraw without the comparison against earnings.available
HandleWithdrawNoMaximum(r) ==
    /\ WithdrawButtonEnabled(ep)
    /\ runs[r].pc = "idle"
    /\ \A q \in RunIds : q < r => runs[q].pc /= "idle"
    /\ hist' = [hist EXCEPT !.tick = 1 - hist.tick]
    /\ LET amount == parseFloat(ep.withdrawAmount) IN
       IF isNaN(amount) \/ amount.cents <= 0
       THEN /\ ep' = [ep EXCEPT !.message = ErrorMessage(<<"Please enter a valid amount">>)]
            /\ runs' = runs
       ELSE /\ ep' = [ep EXCEPT !.isWithdrawing = TRUE, !.message = NoMessage]
            /\ runs' = [runs EXCEPT ![r] = [IdleRun EXCEPT !.pc = "withdraw_sent",
                                                           !.amount = amount.cents]]
    /\ UNCHANGED <<backVars, sessionVars, formVars, route, bank>>

\* handleWithdraw, up to its first await
HandleWithdraw(r) ==
    /\ WithdrawButtonEnabled(ep)
    /\ runs[r].pc = "idle"
    /\ \A q \in RunIds : q < r => runs[q].pc /= "idle"
    /\ hist' = [hist EXCEPT !.tick = 1 - hist.tick]
    /\ LET amount == parseFloat(ep.withdrawAmount) IN
       IF isNaN(amount) \/ amount.cents <= 0
       THEN /\ ep' = [ep EXCEPT !.message = ErrorMessage(<<"Please enter a valid amount">>)]
            /\ runs' = runs
       ELSE IF ep.earnings /= <<>> /\ amount.cents > ep.earnings[1].available
       THEN /\ ep' = [ep EXCEPT !.message =
                         ErrorMessage(<<"Maximum available: $">> \o toFixed2(ep.earnings[1].available))]
            /\ runs' = runs
       ELSE /\ ep' = [ep EXCEPT !.isWithdrawing = TRUE, !.message = NoMessage]
            /\ runs' = [runs EXCEPT ![r] = [IdleRun EXCEPT !.pc = "withdraw_sent",
                                                           !.amount = amount.cents]]
    /\ UNCHANGED <<backVars, sessionVars, formVars, route, bank>>

\* the backend handles POST /api/payments/withdraw
ServeWithdrawal(r) ==
    /\ runs[r].pc = "withdraw_sent" /\ runs[r].resp.kind = "none"
    /\ runs' = [runs EXCEPT ![r].resp = WithdrawalAnswer(bank, runs[r].amount)]
    /\ bank' = AfterWithdrawal(bank, runs[r].amount)
    /\ hist' = IF WithdrawalAnswer(bank, runs[r].amount).kind = "ok"
               THEN [hist EXCEPT !.payoutsForEntry = IF @ < 2 THEN @ + 1 ELSE @]
               ELSE hist
    /\ UNCHANGED <<backVars, sessionVars, formVars, route, ep>>

\* WithdrawResolved with an optimistic update: the new balance computed locally
WithdrawResolvedOptimistic(r) ==
    /\ runs[r].pc = "withdraw_sent" /\ runs[r].resp.kind = "ok"
    /\ ep' = [ep EXCEPT !.message = SuccessMessage(<<runs[r].resp.text>>),
                        !.withdrawAmount = <<>>,
                        !.earnings = <<[ep.earnings[1] EXCEPT !.available = @ - runs[r].amount]>>]
    /\ runs' = [runs EXCEPT ![r] = [@ EXCEPT !.pc = "refresh_sent", !.accepted = TRUE,
                                             !.resp = NoResponse]]
    /\ UNCHANGED <<backVars, sessionVars, formVars, route, bank, hist>>

\* await api.requestWithdrawal(amount) resolved:
\*   setMessage(success); setWithdrawAmount(""); then getEarnings() is sent
WithdrawResolved(r) ==
    /\ runs[r].pc = "withdraw_sent" /\ runs[r].resp.kind = "ok"
    /\ ep' = [ep EXCEPT !.message = SuccessMessage(<<runs[r].resp.text>>),
                        !.withdrawAmount = <<>>]
    /\ runs' = [runs EXCEPT ![r] = [@ EXCEPT !.pc = "refresh_sent", !.accepted = TRUE,
                                             !.resp = NoResponse]]
    /\ UNCHANGED <<backVars, sessionVars, formVars, route, bank, hist>>

\* catch + finally: setMessage({type: "error", text: error.message}); setIsWithdrawing(false)
Caught(e, text) == [e EXCEPT !.message = ErrorMessage(<<text>>), !.isWithdrawing = FALSE]

\* await api.requestWithdrawal(amount) rejected with the backend's detail
WithdrawRejected(r) ==
    /\ runs[r].pc = "withdraw_sent" /\ runs[r].resp.kind = "error"
    /\ ep' = Caught(ep, runs[r].resp.text)
    /\ runs' = [runs EXCEPT ![r] = IdleRun]
    /\ UNCHANGED <<backVars, sessionVars, formVars, route, bank, hist>>

\* fetch rejected (the connection failed), before or after the backend
\* handled the request
WithdrawConnectionLost(r) ==
    /\ runs[r].pc = "withdraw_sent"
    /\ ep' = Caught(ep, "Failed to fetch")
    /\ runs' = [runs EXCEPT ![r] = IdleRun]
    /\ UNCHANGED <<backVars, sessionVars, formVars, route, bank, hist>>

\* the backend handles GET /api/payments/earnings
ServeEarnings(r) ==
    /\ runs[r].pc = "refresh_sent" /\ runs[r].resp.kind = "none"
    /\ runs' = [runs EXCEPT ![r].resp = [kind |-> "ok", text |-> "", earnings |-> <<EarningsOf(bank)>>]]
    /\ UNCHANGED <<backVars, sessionVars, formVars, route, ep, bank, hist>>

\* await api.getEarnings() resolved: setEarnings(updatedEarnings); finally
RefreshResolved(r) ==
    /\ runs[r].pc = "refresh_sent" /\ runs[r].resp.kind = "ok"
    /\ ep' = [ep EXCEPT !.earnings = runs[r].resp.earnings, !.isWithdrawing = FALSE]
    /\ runs' = [runs EXCEPT ![r] = IdleRun]
    /\ UNCHANGED <<backVars, sessionVars, formVars, route, bank, hist>>

\* await api.getEarnings() rejected: the same catch + finally
RefreshRejected(r) ==
    /\ runs[r].pc = "refresh_sent"
    /\ \E text \in {"Failed to fetch", "An error occurred"} : ep' = Caught(ep, text)
    /\ runs' = [runs EXCEPT ![r] = IdleRun]
    /\ UNCHANGED <<backVars, sessionVars, formVars, route, bank, hist>>

EarningsStep ==
    \/ EarningsMount
    \/ LoadDataOk
    \/ LoadDataFails
    \/ \E s \in AmountInputs : SetWithdrawAmount(s)
    \/ WithdrawShortcut
    \/ \E r \in RunIds :
           \/ HandleWithdraw(r)
           \/ ServeWithdrawal(r)
           \/ WithdrawResolved(r)
           \/ WithdrawRejected(r)
           \/ WithdrawConnectionLost(r)
           \/ ServeEarnings(r)
           \/ RefreshResolved(r)
           \/ RefreshRejected(r)

BankStep == TaskSubmitted \/ TaskApproved \/ AccountUpdated

\* ----------------------------------------------------- pages with a form
\* what a text input can hold
Texts == {"", "t"}

Emails == {"", "a@x.io", "b@x.io"}

\* the account the posted credentials name
AccountByEmail(e) == IF e = "b@x.io" THEN "B" ELSE "A"

\* {error && (<div ...>{error}</div>)}: what the inline error banner shows,
\* <<>> when it is not rendered (null and "" are both falsy)
Banner(error) == IF error = Null \/ error = "" THEN <<>> ELSE <<error>>

\* {message && (<div ...>{message.text}</div>)} of the earnings page
MessageBanner(message) == IF message = NoMessage THEN <<>> ELSE <<message.text>>

\* ------------------------------------------------------------- LoginPage
\* the useState defaults
LoginPageInitial ==
    [mounted |-> FALSE, isLoading |-> FALSE, error |-> Null,
     formData |-> [email |-> "", password |-> ""], pc |-> "idle", nav |-> Null]

LoginFields == [email |-> Emails, password |-> Texts]

LoginPageMount ==
    /\ route = "login" /\ ~lp.mounted
    /\ lp' = [LoginPageInitial EXCEPT !.mounted = TRUE]
    /\ UNCHANGED <<backVars, sessionVars, route, earningsVars, pp, cm, sp>>

\* onChange of an input: setFormData({ ...formData, [field]: e.target.value })
LoginPageChange(field, v) ==
    /\ lp.mounted /\ lp.nav = Null
    /\ lp.formData[field] /= v
    /\ lp' = [lp EXCEPT !.formData[field] = v]
    /\ UNCHANGED <<backVars, sessionVars, route, earningsVars, pp, cm, sp>>

\* the form can be submitted: both inputs are required, the button is
\* disabled={isLoading}
LoginSubmitEnabled(l) ==
    /\ l.mounted /\ l.nav = Null /\ ~l.isLoading
    /\ l.formData.email /= "" /\ l.formData.password /= ""

\* handleSubmit, up to its await: setIsLoading(true); setError(null); login({...})
LoginPageSubmit ==
    /\ LoginSubmitEnabled(lp)
    /\ authCalls[1].op = "idle"
    /\ lp' = [lp EXCEPT !.isLoading = TRUE, !.error = Null, !.pc = "awaiting"]
    /\ authCalls' = [authCalls EXCEPT ![1] =
           [IdleCall EXCEPT !.op = "login", !.pc = "login_fetch",
                            !.account = AccountByEmail(lp.formData.email), !.sent = 1]]
    /\ UNCHANGED <<backVars, storage, sessionDead, apiCall, layout, route, earningsVars, pp, cm, sp>>

\* await login() resolved: router.push("/dashboard"); finally setIsLoading(false)
LoginPageResolved ==
    /\ lp.pc = "awaiting"
    /\ authCalls[1].pc = "settled" /\ authCalls[1].result = "resolved"
    /\ lp' = [lp EXCEPT !.isLoading = FALSE, !.pc = "idle", !.nav = "/dashboard"]
    /\ authCalls' = [authCalls EXCEPT ![1] = IdleCall]
    /\ UNCHANGED <<backVars, storage, sessionDead, apiCall, layout, route, earningsVars, pp, cm, sp>>

\* await login() rejected: setError(err.message); finally setIsLoading(false)
LoginPageCaught ==
    /\ lp.pc = "awaiting"
    /\ authCalls[1].pc = "settled" /\ authCalls[1].result = "rejected"
    /\ lp' = [lp EXCEPT !.isLoading = FALSE, !.pc = "idle", !.error = authCalls[1].message]
    /\ authCalls' = [authCalls EXCEPT ![1] = IdleCall]
    /\ UNCHANGED <<backVars, storage, sessionDead, apiCall, layout, route, earningsVars, pp, cm, sp>>

\* the navigation router.push asked for takes place
LoginPageLeave ==
    /\ lp.mounted /\ lp.nav /= Null
    /\ route' = "dashboard"
    /\ lp' = LoginPageInitial
    /\ UNCHANGED <<backVars, sessionVars, earningsVars, pp, cm, sp>>

LoginPageStep ==
    \/ LoginPageMount
    \/ \E field \in DOMAIN LoginFields : \E v \in LoginFields[field] : LoginPageChange(field, v)
    \/ LoginPageSubmit
    \/ LoginFails(1)
    \/ LoginTokenStored(1)
    \/ MeOk(1)
    \/ MeFails(1)
    \/ LoginPageResolved
    \/ LoginPageCaught
    \/ LoginPageLeave

\* ------------------------------------------- ProjectsPage and its modal
\* projects the page can come to list
MaxProjects == 1

\* the language codes the server knows (the seeded languages of the signup page)
LanguageCodes == {"sw", "yo"}

\* the useState defaults of ProjectsPage
ProjectsPageInitial ==
    [mounted |-> FALSE, user |-> NoUser, isLoading |-> TRUE, projects |-> 0,
     languages |-> {}, showCreateModal |-> FALSE]

\* the text a number input can hold
PriceInputs == {<<>>, <<"0">>, <<".", "1">>, <<".", "2">>}

\* the useState defaults of CreateProjectModal (price_per_task: 0.1)
CreateProjectModalInitial ==
    [isLoading |-> FALSE, error |-> Null, pc |-> "idle",
     formData |-> [name |-> "", description |-> "", language_code |-> "",
                   annotation_type |-> "classification", instructions |-> "",
                   price_per_task |-> parseFloat(<<".", "1">>)]]

\* first render, and loadData up to its await of Promise.all
ProjectsMount ==
    /\ route = "projects" /\ ~pp.mounted
    /\ pp' = [ProjectsPageInitial EXCEPT !.mounted = TRUE, !.user = getStoredUser(storage)]
    /\ UNCHANGED <<backVars, sessionVars, route, earningsVars, lp, cm, sp>>

\* loadData: both requests resolved: setProjects; setLanguages; finally
ProjectsLoadOk ==
    /\ pp.mounted /\ pp.isLoading
    /\ pp' = [pp EXCEPT !.isLoading = FALSE, !.languages = LanguageCodes]
    /\ UNCHANGED <<backVars, sessionVars, route, earningsVars, lp, cm, sp>>

\* loadData: a request rejected: console.error; finally setIsLoading(false)
ProjectsLoadFails ==
    /\ pp.mounted /\ pp.isLoading
    /\ pp' = [pp EXCEPT !.isLoading = FALSE]
    /\ UNCHANGED <<backVars, sessionVars, route, earningsVars, lp, cm, sp>>

\* isClient && <button onClick={() => setShowCreateModal(true)}>
OpenCreateModal ==
    /\ pp.mounted /\ ~pp.isLoading /\ pp.user.role = "client"
    /\ ~pp.showCreateModal
    /\ pp.projects < MaxProjects
    /\ pp' = [pp EXCEPT !.showCreateModal = TRUE]
    /\ cm' = CreateProjectModalInitial
    /\ UNCHANGED <<backVars, sessionVars, route, earningsVars, lp, sp>>

\* onClose (the Cancel button), while no submission is pending
CloseCreateModal ==
    /\ pp.showCreateModal /\ cm.pc = "idle"
    /\ pp' = [pp EXCEPT !.showCreateModal = FALSE]
    /\ cm' = CreateProjectModalInitial
    /\ UNCHANGED <<backVars, sessionVars, route, earningsVars, lp, sp>>

\* the values the modal's controls offer
ModalFields ==
    [name |-> Texts, description |-> Texts, instructions |-> Texts,
     language_code |-> {""} \cup pp.languages,
     annotation_type |-> {"classification", "ner"},
     price_per_task |-> {parseFloat(s) : s \in PriceInputs}]

\* onChange of a control: setFormData({ ...formData, [field]: value })
ModalChange(field, v) ==
    /\ pp.showCreateModal
    /\ cm.formData[field] /= v
    /\ cm' = [cm EXCEPT !.formData[field] = v]
    /\ UNCHANGED <<backVars, sessionVars, route, earningsVars, lp, pp, sp>>

\* the browser lets the form submit: required name, language, description,
\* instructions; price required with min="0.01"; button disabled={isLoading}
ModalSubmitEnabled(m) ==
    /\ ~m.isLoading
    /\ m.formData.name /= "" /\ m.formData.description /= ""
    /\ m.formData.instructions /= "" /\ m.formData.language_code /= ""
    /\ ~isNaN(m.formData.price_per_task) /\ m.formData.price_per_task.cents >= 1

\* the request a page sends through the api client of lib/api.ts
PageRequest(fn, origin) ==
    [IdleApi EXCEPT !.client = "legacy", !.fn = fn, !.pc = "awaiting",
                    !.authorization = Authorization("legacy", fn, storage),
                    !.tokenAtSend = storage.token, !.origin = origin, !.sent = 1]

\* handleSubmit, up to its await:
\*   setIsLoading(true); setError(null); api.createProject(formData)
ModalSubmit ==
    /\ pp.showCreateModal /\ ModalSubmitEnabled(cm)
    /\ apiCall.pc = "idle"
    /\ cm' = [cm EXCEPT !.isLoading = TRUE, !.error = Null, !.pc = "awaiting"]
    /\ apiCall' = [PageRequest("createProject", "modal") EXCEPT !.payload = <<cm.formData>>]
    /\ UNCHANGED <<backVars, storage, authCalls, sessionDead, layout, route, earningsVars, lp, pp, sp>>

\* await api.createProject resolved: onCreated(project), which is
\*   setProjects([...projects, project]); setShowCreateModal(false)
ModalCreated ==
    /\ cm.pc = "awaiting"
    /\ apiCall.origin = "modal" /\ apiCall.pc = "settled" /\ apiCall.result = "resolved"
    /\ pp' = [pp EXCEPT !.projects = pp.projects + 1, !.showCreateModal = FALSE]
    /\ cm' = CreateProjectModalInitial
    /\ apiCall' = IdleApi
    /\ UNCHANGED <<backVars, storage, authCalls, sessionDead, layout, route, earningsVars, lp, sp>>

\* await api.createProject rejected: setError(err.message); finally setIsLoading(false)
ModalCaught ==
    /\ cm.pc = "awaiting"
    /\ apiCall.origin = "modal" /\ apiCall.pc = "settled" /\ apiCall.result = "rejected"
    /\ cm' = [cm EXCEPT !.isLoading = FALSE, !.pc = "idle", !.error = apiCall.message]
    /\ apiCall' = IdleApi
    /\ UNCHANGED <<backVars, storage, authCalls, sessionDead, layout, route, earningsVars, lp, pp, sp>>

ProjectsPageStep ==
    \/ ProjectsMount
    \/ ProjectsLoadOk
    \/ ProjectsLoadFails
    \/ OpenCreateModal
    \/ CloseCreateModal
    \/ \E field \in DOMAIN ModalFields : \E v \in ModalFields[field] : ModalChange(field, v)
    \/ ModalSubmit
    \/ ModalCreated
    \/ ModalCaught

\* ------------------------------------------------------------ SignupPage
\* the PROFICIENCY_LEVELS offered (two of the four)
ProficiencyLevels == {"native", "fluent"}

\* the useState defaults
SignupPageInitial ==
    [mounted |-> FALSE, role |-> "annotator", step |-> 1, isLoading |-> FALSE,
     error |-> Null, pc |-> "idle", nav |-> Null,
     formData |-> [email |-> "", password |-> "", fullName |-> "", country |-> "",
                   languages |-> <<>>, availableHours |-> "", bio |-> "",
                   companyName |-> "", projectDescription |-> ""]]

\* first render: role from the ?role= search parameter
SignupMount(initialRole) ==
    /\ route = "signup" /\ ~sp.mounted
    /\ sp' = [SignupPageInitial EXCEPT !.mounted = TRUE,
                 !.role = IF initialRole = "client" THEN "client" ELSE "annotator"]
    /\ UNCHANGED <<backVars, sessionVars, route, earningsVars, lp, pp, cm>>

\* the role toggle: onClick={() => setRole(r)}
SetRole(r) ==
    /\ sp.mounted /\ sp.nav = Null
    /\ sp.role /= r
    /\ sp' = [sp EXCEPT !.role = r]
    /\ UNCHANGED <<backVars, sessionVars, route, earningsVars, lp, pp, cm>>

\* Continue on step 1, Back on step 2: onClick={() => setStep(n)}
SetStep(n) ==
    /\ sp.mounted /\ sp.nav = Null
    /\ sp.step /= n
    /\ sp' = [sp EXCEPT !.step = n]
    /\ UNCHANGED <<backVars, sessionVars, route, earningsVars, lp, pp, cm>>

\* the text controls the current step and role render.  The password input
\* and the availableHours select, whose values no request carries, are left
\* at their defaults.
SignupFields(s) ==
    IF s.step = 1
    THEN {"fullName", "email", "country"}
             \cup (IF s.role = "client" THEN {"companyName"} ELSE {})
    ELSE IF s.role = "annotator" THEN {"bio"}
    ELSE {"projectDescription"}

\* onChange of a control: setFormData({ ...formData, [field]: e.target.value })
SignupChange(field, v) ==
    /\ sp.mounted /\ sp.nav = Null
    /\ field \in SignupFields(sp)
    /\ sp.formData[field] /= v
    /\ sp' = [sp EXCEPT !.formData[field] = v]
    /\ UNCHANGED <<backVars, sessionVars, route, earningsVars, lp, pp, cm>>

\* prev.languages.find((l) => l.code === langCode)
Selected(languages, langCode) == \E i \in DOMAIN languages : languages[i].code = langCode

\* prev.languages.filter((l) => l.code !== langCode)
RECURSIVE WithoutCode(_, _)
WithoutCode(languages, langCode) ==
    IF languages = <<>> THEN <<>>
    ELSE IF Head(languages).code = langCode THEN WithoutCode(Tail(languages), langCode)
    ELSE <<Head(languages)>> \o WithoutCode(Tail(languages), langCode)

\* handleLanguageToggle's updater without the lookup of an existing entry
AppendedLanguages(languages, langCode) ==
    Append(languages, [code |-> langCode, proficiency |-> "native"])

\* the list handleLanguageToggle's updater returns
ToggledLanguages(languages, langCode) ==
    IF Selected(languages, langCode) THEN WithoutCode(languages, langCode)
    ELSE Append(languages, [code |-> langCode, proficiency |-> "native"])

\* the list handleProficiencyChange's updater returns
WithProficiency(languages, langCode, proficiency) ==
    [i \in DOMAIN languages |->
        IF languages[i].code = langCode
        THEN [languages[i] EXCEPT !.proficiency = proficiency] ELSE languages[i]]

\* a language button of step 2: onClick={() => handleLanguageToggle(lang.code)}
handleLanguageToggle(langCode) ==
    /\ sp.mounted /\ sp.nav = Null /\ sp.step = 2
    /\ sp' = [sp EXCEPT !.formData.languages = ToggledLanguages(@, langCode)]
    /\ UNCHANGED <<backVars, sessionVars, route, earningsVars, lp, pp, cm>>

\* the proficiency select of a selected language (annotator, step 2)
handleProficiencyChange(langCode, proficiency) ==
    /\ sp.mounted /\ sp.nav = Null /\ sp.step = 2 /\ sp.role = "annotator"
    /\ \E i \in DOMAIN sp.formData.languages :
           /\ sp.formData.languages[i].code = langCode
           /\ sp.formData.languages[i].proficiency /= proficiency
    /\ sp' = [sp EXCEPT !.formData.languages = WithProficiency(@, langCode, proficiency)]
    /\ UNCHANGED <<backVars, sessionVars, route, earningsVars, lp, pp, cm>>

\* the submit button of step 2 with the annotator's languages test left out
SignupSubmitAnyLanguages(s) ==
    s.mounted /\ s.nav = Null /\ s.step = 2 /\ ~s.isLoading

\* the submit button of step 2 is rendered and enabled:
\*   annotator: disabled={formData.languages.length === 0 || isLoading}
\*   client:    disabled={isLoading}
SignupSubmitEnabled(s) ==
    /\ s.mounted /\ s.nav = Null /\ s.step = 2 /\ ~s.isLoading
    /\ s.role = "annotator" => Len(s.formData.languages) > 0

\* languages.map((l) => l.code)
RECURSIVE Codes(_)
Codes(languages) ==
    IF languages = <<>> THEN <<>>
    ELSE <<Head(languages).code>> \o Codes(Tail(languages))

\* languages.every((l) => l.proficiency === "native")
everyNativeSpeaker(languages) ==
    \A k \in DOMAIN languages : languages[k].proficiency = "native"

\* languages.some((l) => l.proficiency === "native")
hasNativeSpeaker(languages) ==
    \E k \in DOMAIN languages : languages[k].proficiency = "native"

\* the account the annotator branch of handleSubmit asks for
SignupAnnotator(formData) ==
    [email |-> formData.email,
     name |-> formData.fullName,
     languages |-> Codes(formData.languages),
     country |-> formData.country,
     is_native_speaker |-> hasNativeSpeaker(formData.languages)]

\* the project the client branch of handleSubmit asks for
SignupProject(formData) ==
    [name |-> formData.companyName \o " Project",
     description |-> formData.projectDescription,
     language_code |-> formData.languages[1].code,
     annotation_type |-> "classification",
     instructions |-> formData.projectDescription,
     price_per_task |-> parseFloat(<<"0", ".", "1", "0">>)]

\* handleSubmit, up to its await.  The annotator branch sends createAnnotator;
\* the client branch sends createProject when a language is selected, and
\* without one runs through router.push and finally with no request at all
SignupSubmit ==
    /\ SignupSubmitEnabled(sp)
    /\ apiCall.pc = "idle"
    /\ IF sp.role = "annotator"
       THEN /\ sp' = [sp EXCEPT !.isLoading = TRUE, !.error = Null, !.pc = "awaiting_annotator"]
            /\ apiCall' = [PageRequest("createAnnotator", "signup") EXCEPT
                              !.payload = <<SignupAnnotator(sp.formData)>>]
       ELSE IF Len(sp.formData.languages) > 0
       THEN /\ sp' = [sp EXCEPT !.isLoading = TRUE, !.error = Null, !.pc = "awaiting_client"]
            /\ apiCall' = [PageRequest("createProject", "signup") EXCEPT
                              !.payload = <<SignupProject(sp.formData)>>]
       ELSE /\ sp' = [sp EXCEPT !.isLoading = FALSE, !.error = Null,
                                !.nav = "/signup/success?type=client"]
            /\ apiCall' = apiCall
    /\ UNCHANGED <<backVars, storage, authCalls, sessionDead, layout, route, earningsVars, lp, pp, cm>>

\* the await resolved: router.push of the branch taken at submission; finally
SignupResolved ==
    /\ sp.pc \in {"awaiting_annotator", "awaiting_client"}
    /\ apiCall.origin = "signup" /\ apiCall.pc = "settled" /\ apiCall.result = "resolved"
    /\ sp' = [sp EXCEPT !.isLoading = FALSE, !.pc = "idle",
                        !.nav = IF sp.pc = "awaiting_annotator"
                                THEN "/signup/success?type=annotator"
                                ELSE "/signup/success?type=client"]
    /\ apiCall' = IdleApi
    /\ UNCHANGED <<backVars, storage, authCalls, sessionDead, layout, route, earningsVars, lp, pp, cm>>

\* SignupCaught without the finally block
SignupCaughtNoFinally ==
    /\ sp.pc \in {"awaiting_annotator", "awaiting_client"}
    /\ apiCall.origin = "signup" /\ apiCall.pc = "settled" /\ apiCall.result = "rejected"
    /\ sp' = [sp EXCEPT !.pc = "idle", !.error = apiCall.message]
    /\ apiCall' = IdleApi
    /\ UNCHANGED <<backVars, storage, authCalls, sessionDead, layout, route, earningsVars, lp, pp, cm>>

\* the await rejected: setError(err.message); finally setIsLoading(false)
SignupCaught ==
    /\ sp.pc \in {"awaiting_annotator", "awaiting_client"}
    /\ apiCall.origin = "signup" /\ apiCall.pc = "settled" /\ apiCall.result = "rejected"
    /\ sp' = [sp EXCEPT !.isLoading = FALSE, !.pc = "idle", !.error = apiCall.message]
    /\ apiCall' = IdleApi
    /\ UNCHANGED <<backVars, storage, authCalls, sessionDead, layout, route, earningsVars, lp, pp, cm>>

\* the navigation router.push asked for takes place
SignupLeave ==
    /\ sp.mounted /\ sp.nav /= Null
    /\ route' = "signup/success"
    /\ sp' = SignupPageInitial
    /\ UNCHANGED <<backVars, sessionVars, earningsVars, lp, pp, cm>>

SignupPageStep ==
    \/ \E initialRole \in {"annotator", "client"} : SignupMount(initialRole)
    \/ \E r \in {"annotator", "client"} : SetRole(r)
    \/ \E n \in {1, 2} : SetStep(n)
    \/ \E field \in DOMAIN SignupPageInitial.formData \ {"languages"} :
           \E v \in Texts : SignupChange(field, v)
    \/ \E langCode \in LanguageCodes : handleLanguageToggle(langCode)
    \/ \E langCode \in LanguageCodes, proficiency \in ProficiencyLevels :
           handleProficiencyChange(langCode, proficiency)
    \/ SignupSubmit
    \/ SignupResolved
    \/ SignupCaught
    \/ SignupLeave

\* ------------------------------------------ backend: projects and tasks
\* projects and tasks the store can come to hold
MaxStoredProjects == 1

MaxTasks == 3

ProjectIds == 1..MaxStoredProjects

TaskIds == 1..MaxTasks

\* the users of the backend: clients own projects, annotators work on tasks
Clients == {"cl1", "cl2"}

Annotators == {"an1", "an2"}

\* Project.status
ProjectStatuses == {"draft", "active", "completed", "paused", "pending_review", "cancelled"}

\* Task.status
TaskStatuses == {"available", "assigned", "in_progress", "submitted", "under_review",
                 "approved", "rejected"}

\* label_studio_project_id / label_studio_task_id: number | null, null as 0
NoExtId == 0

\* the legal transition set of a project's status
LegalTransitions ==
    {<<"draft", "active">>, <<"active", "paused">>, <<"paused", "active">>,
     <<"active", "completed">>}
    \cup {<<s, "cancelled">> : s \in ProjectStatuses \ {"cancelled"}}

NoReply == [op |-> Null, error |-> Null]

Ok(op) == [op |-> op, error |-> Null]

Failed(op, error) == [op |-> op, error |-> error]

\* a ProjectCreate body that passes validation (price in cents)
ValidSpec(price) ==
    [name |-> "t", description |-> "t", instructions |-> "t",
     language_code |-> "sw", price_per_task |-> price]

\* the ProjectCreate bodies a request can carry: valid ones, and one for each
\* way of being invalid
ProjectSpecs ==
    {ValidSpec(10), ValidSpec(20), ValidSpec(0),
     [ValidSpec(10) EXCEPT !.language_code = "xx"],
     [ValidSpec(10) EXCEPT !.language_code = ""],
     [ValidSpec(10) EXCEPT !.name = ""],
     [ValidSpec(10) EXCEPT !.description = ""],
     [ValidSpec(10) EXCEPT !.instructions = ""]}

\* createProject: language_code known, price_per_task > 0, required texts present
ValidProject(spec) ==
    /\ spec.language_code \in LanguageCodes
    /\ spec.price_per_task > 0
    /\ spec.name /= "" /\ spec.description /= "" /\ spec.instructions /= ""

NewProject(owner, spec) ==
    [client_id |-> owner, language_code |-> spec.language_code,
     price_per_task |-> spec.price_per_task, status |-> "draft",
     total_tasks |-> 0, completed_tasks |-> 0, label_studio_project_id |-> NoExtId]

NewTask(id) ==
    [project_id |-> id, status |-> "available", assigned_to |-> Null,
     label_studio_task_id |-> NoExtId]

\* n copies of a record, as a sequence
Repeat(x, n) == [i \in 1..n |-> x]

\* createProject(ownerId, spec)
createProject(owner, spec) ==
    /\ IF ~ValidProject(spec)
       THEN /\ reply' = Failed("createProject", "ValidationError")
            /\ projects' = projects
       ELSE /\ Len(projects) < MaxStoredProjects
            /\ projects' = Append(projects, NewProject(owner, spec))
            /\ reply' = Ok("createProject")
    /\ UNCHANGED <<sessionVars, route, earningsVars, formVars, tasks, claimReqs, ext, syncRun>>

\* addTasks that leaves the project's counter as it was
addTasksCounterKept(id, n, requester) ==
    /\ id \in DOMAIN projects /\ projects[id].client_id = requester
    /\ Len(tasks) + n <= MaxTasks
    /\ tasks' = tasks \o Repeat(NewTask(id), n)
    /\ projects' = projects
    /\ reply' = Ok("addTasks")
    /\ UNCHANGED <<sessionVars, route, earningsVars, formVars, claimReqs, ext, syncRun>>

\* addTasks(projectId, dataItems[], requesterId): one available task per item
\* and total_tasks + n, as one batch
addTasks(id, n, requester) ==
    /\ IF id \notin DOMAIN projects
       THEN /\ reply' = Failed("addTasks", "NotFoundError")
            /\ UNCHANGED <<projects, tasks>>
       ELSE IF projects[id].client_id /= requester
       THEN /\ reply' = Failed("addTasks", "AuthorizationError")
            /\ UNCHANGED <<projects, tasks>>
       ELSE /\ Len(tasks) + n <= MaxTasks
            /\ tasks' = tasks \o Repeat(NewTask(id), n)
            /\ projects' = [projects EXCEPT ![id].total_tasks = @ + n]
            /\ reply' = Ok("addTasks")
    /\ UNCHANGED <<sessionVars, route, earningsVars, formVars, claimReqs, ext, syncRun>>

\* a change of a project's status to target, checked against the table
TransitionProject(op, id, requester, target) ==
    /\ IF id \notin DOMAIN projects
       THEN reply' = Failed(op, "NotFoundError") /\ projects' = projects
       ELSE IF projects[id].client_id /= requester
       THEN reply' = Failed(op, "AuthorizationError") /\ projects' = projects
       ELSE IF <<projects[id].status, target>> \notin LegalTransitions
       THEN reply' = Failed(op, "InvalidStateTransition") /\ projects' = projects
       ELSE reply' = Ok(op) /\ projects' = [projects EXCEPT ![id].status = target]
    /\ UNCHANGED <<sessionVars, route, earningsVars, formVars, tasks, claimReqs, ext, syncRun>>

\* activateProject that moves any project that is not yet active to active
activateProjectFromAny(id, requester) ==
    /\ id \in DOMAIN projects /\ projects[id].client_id = requester
    /\ projects[id].status /= "active"
    /\ projects' = [projects EXCEPT ![id].status = "active"]
    /\ reply' = Ok("activateProject")
    /\ UNCHANGED <<sessionVars, route, earningsVars, formVars, tasks, claimReqs, ext, syncRun>>

\* activateProject(id, requesterId): legal only from draft
activateProject(id, requester) ==
    /\ IF id \notin DOMAIN projects
       THEN reply' = Failed("activateProject", "NotFoundError") /\ projects' = projects
       ELSE IF projects[id].client_id /= requester
       THEN reply' = Failed("activateProject", "AuthorizationError") /\ projects' = projects
       ELSE IF projects[id].status /= "draft"
       THEN reply' = Failed("activateProject", "InvalidStateTransition") /\ projects' = projects
       ELSE reply' = Ok("activateProject") /\ projects' = [projects EXCEPT ![id].status = "active"]
    /\ UNCHANGED <<sessionVars, route, earningsVars, formVars, tasks, claimReqs, ext, syncRun>>

\* the other status changes (pause, resume, complete, cancel, a move to
\* pending_review), each checked against the table
setProjectStatus(id, requester, target) ==
    TransitionProject("setProjectStatus", id, requester, target)

\* the price of the project a task belongs to
PriceOf(t) == projects[t.project_id].price_per_task

\* the sum of f over a set of task ids
RECURSIVE SumPrices(_)
SumPrices(ids) ==
    IF ids = {} THEN 0
    ELSE LET i == CHOOSE j \in ids : TRUE IN PriceOf(tasks[i]) + SumPrices(ids \ {i})

TasksOf(annotator, statuses) ==
    {i \in DOMAIN tasks : tasks[i].assigned_to = annotator /\ tasks[i].status \in statuses}

\* getEarnings(annotatorId): pending from the tasks submitted or under review,
\* available and total_earned from the approved ones (nothing withdrawn here)
Earnings(annotator) ==
    [total_earned |-> SumPrices(TasksOf(annotator, {"approved"})),
     pending |-> SumPrices(TasksOf(annotator, {"submitted", "under_review"})),
     available |-> SumPrices(TasksOf(annotator, {"approved"})),
     currency |-> "USD"]

\* a task operation refused: the error is answered and nothing is stored
TaskFailure(op, error) ==
    /\ reply' = Failed(op, error)
    /\ UNCHANGED <<projects, tasks>>

\* claimTask deciding on the status it read when the request arrived
claimTaskStaleRead(i, annotator, readStatus) ==
    /\ IF i \notin DOMAIN tasks THEN TaskFailure("claimTask", "NotFoundError")
       ELSE IF readStatus /= "available" THEN TaskFailure("claimTask", "ConflictError")
       ELSE /\ tasks' = [tasks EXCEPT ![i].status = "assigned", ![i].assigned_to = annotator]
            /\ projects' = projects
            /\ reply' = Ok("claimTask")

\* claimTask(taskId, annotatorId): the conditional update on status = available
claimTask(i, annotator, readStatus) ==
    /\ IF i \notin DOMAIN tasks THEN TaskFailure("claimTask", "NotFoundError")
       ELSE IF tasks[i].status /= "available" THEN TaskFailure("claimTask", "ConflictError")
       ELSE /\ tasks' = [tasks EXCEPT ![i].status = "assigned", ![i].assigned_to = annotator]
            /\ projects' = projects
            /\ reply' = Ok("claimTask")

\* claimTask called and handled in one piece
ClaimNow(i, annotator) ==
    /\ claimTask(i, annotator, IF i \in DOMAIN tasks THEN tasks[i].status ELSE Null)
    /\ UNCHANGED <<sessionVars, route, earningsVars, formVars, claimReqs, ext, syncRun>>

\* the assignee opens the task: assigned -> in_progress
startTask(i, annotator) ==
    /\ IF i \notin DOMAIN tasks THEN TaskFailure("startTask", "NotFoundError")
       ELSE IF tasks[i].assigned_to /= annotator THEN TaskFailure("startTask", "AuthorizationError")
       ELSE IF tasks[i].status /= "assigned" THEN TaskFailure("startTask", "InvalidStateTransition")
       ELSE /\ tasks' = [tasks EXCEPT ![i].status = "in_progress"]
            /\ projects' = projects
            /\ reply' = Ok("startTask")
    /\ UNCHANGED <<sessionVars, route, earningsVars, formVars, claimReqs, ext, syncRun>>

\* submitTask accepting a task in any status
submitTaskFromAny(i, annotator) ==
    /\ i \in DOMAIN tasks /\ tasks[i].status /= "submitted"
    /\ tasks' = [tasks EXCEPT ![i].status = "submitted"]
    /\ projects' = projects
    /\ reply' = Ok("submitTask")
    /\ UNCHANGED <<sessionVars, route, earningsVars, formVars, claimReqs, ext, syncRun>>

\* submitTask(taskId, annotatorId, result): legal only from in_progress (or
\* assigned), by the assigned annotator
submitTask(i, annotator) ==
    /\ IF i \notin DOMAIN tasks THEN TaskFailure("submitTask", "NotFoundError")
       ELSE IF tasks[i].assigned_to /= annotator THEN TaskFailure("submitTask", "AuthorizationError")
       ELSE IF tasks[i].status \notin {"in_progress", "assigned"}
       THEN TaskFailure("submitTask", "InvalidStateTransition")
       ELSE /\ tasks' = [tasks EXCEPT ![i].status = "submitted"]
            /\ projects' = projects
            /\ reply' = Ok("submitTask")
    /\ UNCHANGED <<sessionVars, route, earningsVars, formVars, claimReqs, ext, syncRun>>

\* a submitted task is taken up for review: submitted -> under_review
beginReview(i) ==
    /\ IF i \notin DOMAIN tasks THEN TaskFailure("beginReview", "NotFoundError")
       ELSE IF tasks[i].status /= "submitted" THEN TaskFailure("beginReview", "InvalidStateTransition")
       ELSE /\ tasks' = [tasks EXCEPT ![i].status = "under_review"]
            /\ projects' = projects
            /\ reply' = Ok("beginReview")
    /\ UNCHANGED <<sessionVars, route, earningsVars, formVars, claimReqs, ext, syncRun>>

\* reviewTask whose reject keeps the assignee on the task
ReviewedAssigneeKept(i, decision) ==
    IF decision = "approve"
    THEN /\ tasks' = [tasks EXCEPT ![i].status = "approved"]
         /\ projects' = [projects EXCEPT ![tasks[i].project_id].completed_tasks = @ + 1]
    ELSE /\ tasks' = [tasks EXCEPT ![i].status = "available"]
         /\ projects' = projects

\* reviewTask whose reject counts the task as completed
ReviewedRejectCounted(i, decision) ==
    IF decision = "approve"
    THEN /\ tasks' = [tasks EXCEPT ![i].status = "approved"]
         /\ projects' = [projects EXCEPT ![tasks[i].project_id].completed_tasks = @ + 1]
    ELSE /\ tasks' = [tasks EXCEPT ![i].status = "available", ![i].assigned_to = Null]
         /\ projects' = [projects EXCEPT ![tasks[i].project_id].completed_tasks = @ + 1]

\* an approval that sets the task approved without counting it
ReviewedApproveUncounted(i, decision) ==
    IF decision = "approve"
    THEN /\ tasks' = [tasks EXCEPT ![i].status = "approved"]
         /\ projects' = projects
    ELSE /\ tasks' = [tasks EXCEPT ![i].status = "available", ![i].assigned_to = Null]
         /\ projects' = projects

\* what reviewTask makes of a task under review, and of its project
Reviewed(i, decision) ==
    IF decision = "approve"
    THEN /\ tasks' = [tasks EXCEPT ![i].status = "approved"]
         /\ projects' = [projects EXCEPT ![tasks[i].project_id].completed_tasks = @ + 1]
    ELSE /\ tasks' = [tasks EXCEPT ![i].status = "available", ![i].assigned_to = Null]
         /\ projects' = projects


\* reviewTask(taskId, reviewerId, decision): legal only from under_review
reviewTask(i, decision) ==
    /\ IF i \notin DOMAIN tasks THEN TaskFailure("reviewTask", "NotFoundError")
       ELSE IF tasks[i].status /= "under_review"
       THEN TaskFailure("reviewTask", "InvalidStateTransition")
       ELSE Reviewed(i, decision) /\ reply' = Ok("reviewTask")
    /\ UNCHANGED <<sessionVars, route, earningsVars, formVars, claimReqs, ext, syncRun>>

\* the operations on projects
ProjectStep ==
    \/ \E spec \in ProjectSpecs : createProject("cl1", spec)
    \/ \E id \in ProjectIds, requester \in Clients : activateProject(id, requester)
    \/ \E id \in ProjectIds, requester \in Clients, target \in ProjectStatuses \ {"draft"} :
           setProjectStatus(id, requester, target)
    \/ \E id \in ProjectIds, n \in TaskIds, requester \in Clients : addTasks(id, n, requester)

\* the operations on tasks
TaskStep ==
    \/ \E i \in TaskIds, annotator \in Annotators :
           \/ ClaimNow(i, annotator)
           \/ startTask(i, annotator)
           \/ submitTask(i, annotator)
    \/ \E i \in TaskIds : beginReview(i)
    \/ \E i \in TaskIds, decision \in {"approve", "reject"} : reviewTask(i, decision)

\* an annotator's claimTask request: none in flight
IdleClaim == [pc |-> "idle", task |-> 0, read |-> Null, result |-> Null]

\* the request reaches the backend, which looks the task up; another request
\* may be handled before this one is decided
ClaimArrives(annotator, i) ==
    /\ claimReqs[annotator].pc = "idle"
    /\ claimReqs' = [claimReqs EXCEPT ![annotator] =
           [pc |-> "arrived", task |-> i,
            read |-> IF i \in DOMAIN tasks THEN tasks[i].status ELSE Null,
            result |-> Null]]
    /\ UNCHANGED <<sessionVars, route, earningsVars, formVars, projects, tasks, reply, ext,
                   syncRun>>

\* the backend decides the request and answers it
ClaimCommits(annotator) ==
    /\ claimReqs[annotator].pc = "arrived"
    /\ claimTask(claimReqs[annotator].task, annotator, claimReqs[annotator].read)
    /\ claimReqs' = [claimReqs EXCEPT ![annotator].pc = "done",
                                      ![annotator].result =
                                          IF reply'.error = Null THEN "ok" ELSE reply'.error]
    /\ UNCHANGED <<sessionVars, route, earningsVars, formVars, ext, syncRun>>

\* the annotator has the answer and may claim again
ClaimReturns(annotator) ==
    /\ claimReqs[annotator].pc = "done"
    /\ claimReqs' = [claimReqs EXCEPT ![annotator] = IdleClaim]
    /\ UNCHANGED <<sessionVars, route, earningsVars, formVars, projects, tasks, reply, ext,
                   syncRun>>

\* no sync run in flight
IdleSync == [pc |-> "idle", project |-> 0, synced_tasks |-> 0, is_available |-> TRUE]

\* the local tasks of project id that have no external task id yet
Unpushed(id) ==
    {i \in DOMAIN tasks : tasks[i].project_id = id /\ tasks[i].label_studio_task_id = NoExtId}

\* sync(projectId): the run starts
SyncStart(id) ==
    /\ syncRun.pc = "idle"
    /\ IF id \notin DOMAIN projects
       THEN reply' = Failed("sync", "NotFoundError") /\ syncRun' = syncRun
       ELSE reply' = reply /\ syncRun' = [IdleSync EXCEPT !.pc = "project", !.project = id]
    /\ UNCHANGED <<sessionVars, route, earningsVars, formVars, projects, tasks, claimReqs, ext>>

\* if the project has no external project id, one is created in the external
\* tool and recorded
SyncProject ==
    /\ syncRun.pc = "project"
    /\ IF projects[syncRun.project].label_studio_project_id = NoExtId
       THEN /\ ext' = [ext EXCEPT !.projects = Append(@, syncRun.project)]
            /\ projects' = [projects EXCEPT
                   ![syncRun.project].label_studio_project_id = Len(ext.projects) + 1]
       ELSE UNCHANGED <<ext, projects>>
    /\ syncRun' = [syncRun EXCEPT !.pc = "tasks"]
    /\ UNCHANGED <<sessionVars, route, earningsVars, formVars, tasks, reply, claimReqs>>

\* a sync that pushes a task of the project whether or not it has an
\* external id
SyncTaskAny ==
    /\ syncRun.pc = "tasks"
    /\ syncRun.synced_tasks < MaxTasks
    /\ \E i \in {j \in DOMAIN tasks : tasks[j].project_id = syncRun.project} :
           /\ ext' = [ext EXCEPT !.tasks = Append(@, i)]
           /\ tasks' = [tasks EXCEPT ![i].label_studio_task_id = Len(ext.tasks) + 1]
    /\ syncRun' = [syncRun EXCEPT !.synced_tasks = @ + 1]
    /\ UNCHANGED <<sessionVars, route, earningsVars, formVars, projects, reply, claimReqs>>

\* one local task lacking an external task id is pushed and its external id
\* recorded
SyncTask ==
    /\ syncRun.pc = "tasks"
    /\ \E i \in Unpushed(syncRun.project) :
           /\ ext' = [ext EXCEPT !.tasks = Append(@, i)]
           /\ tasks' = [tasks EXCEPT ![i].label_studio_task_id = Len(ext.tasks) + 1]
    /\ syncRun' = [syncRun EXCEPT !.synced_tasks = @ + 1]
    /\ UNCHANGED <<sessionVars, route, earningsVars, formVars, projects, reply, claimReqs>>

\* the external tool cannot be reached: the run ends with is_available false
\* and nothing more than what it had pushed
SyncUnavailable ==
    /\ syncRun.pc \in {"project", "tasks"}
    /\ syncRun' = [syncRun EXCEPT !.pc = "done", !.is_available = FALSE]
    /\ reply' = Ok("sync")
    /\ UNCHANGED <<sessionVars, route, earningsVars, formVars, projects, tasks, claimReqs, ext>>

\* every task has its external id: the run answers its counts
SyncFinish ==
    /\ syncRun.pc = "tasks"
    /\ Unpushed(syncRun.project) = {}
    /\ syncRun' = [syncRun EXCEPT !.pc = "done"]
    /\ reply' = Ok("sync")
    /\ UNCHANGED <<sessionVars, route, earningsVars, formVars, projects, tasks, claimReqs, ext>>

\* the caller has the LabelStudioSyncResponse
SyncReturns ==
    /\ syncRun.pc = "done"
    /\ syncRun' = IdleSync
    /\ UNCHANGED <<sessionVars, route, earningsVars, formVars, projects, tasks, reply, claimReqs,
                   ext>>

\* the steps of a sync run
SyncStep == SyncProject \/ SyncTask \/ SyncUnavailable \/ SyncFinish \/ SyncReturns

\* ---------------------------------------------------------- specifications
EmptyStorage == [token |-> Null, user |-> <<>>]

\* the session login(a) leaves when it resolves with its user stored
SignedIn(a) == setStoredUser(setToken(EmptyStorage, TokenOf(a)), ProfileOf(TokenOf(a)))

\* the backend's store is empty, and so is the external annotation tool
InitStore ==
    /\ projects = <<>>
    /\ tasks = <<>>
    /\ reply = NoReply
    /\ claimReqs = [a \in Annotators |-> IdleClaim]
    /\ ext = [projects |-> <<>>, tasks |-> <<>>]
    /\ syncRun = IdleSync

\* nothing in flight, no page mounted, an annotator without earnings or account
InitIdle ==
    /\ authCalls = [c \in AuthCallIds |-> IdleCall]
    /\ sessionDead = FALSE
    /\ apiCall = IdleApi
    /\ layout = Unmounted
    /\ ep = EarningsUnmounted
    /\ runs = [r \in RunIds |-> IdleRun]
    /\ bank = [available |-> 0, pending |-> 0, total_earned |-> 0, payouts |-> 0, account |-> "none"]
    /\ hist = [tick |-> 0, payoutsForEntry |-> 0]
    /\ lp = LoginPageInitial
    /\ pp = ProjectsPageInitial
    /\ cm = CreateProjectModalInitial
    /\ sp = SignupPageInitial
    /\ InitStore

Init ==
    /\ storage = EmptyStorage
    /\ route = "/"
    /\ InitIdle

\* the session under concurrent calls of login, register, getCurrentUser and logout
NextAuth ==
    \/ \E c \in AuthCallIds : AuthStep(c)
    \/ Logout

SpecAuth == Init /\ [][NextAuth]_vars

\* the API clients beside the session: any api.* function of either client
NextApi ==
    \/ AuthStep(1)
    \/ Logout
    \/ \E fn \in LegacyFunctions : ApiStart("legacy", fn, "other")
    \/ \E fn \in BearerFunctions : ApiStart("bearer", fn, "other")
    \/ ApiSettle

SpecApi == Init /\ [][NextApi]_vars

\* the dashboard: the layout's gate and the requests of the pages it renders
NextLayout ==
    \/ AuthStep(1)
    \/ LayoutStep
    \/ \E fn \in DashboardFunctions : ApiStart("legacy", fn, "dashboard")
    \/ ApiSettle

SpecLayout == Init /\ [][NextLayout]_vars

\* the login page, and the dashboard its navigation leads to
InitLogin ==
    /\ storage = EmptyStorage
    /\ route = "login"
    /\ InitIdle

NextLogin ==
    \/ LoginPageStep
    \/ route = "dashboard" /\ LayoutMount
    \/ route = "dashboard" /\ LayoutEffect

SpecLogin == InitLogin /\ [][NextLogin]_vars

\* the earnings page of a signed-in user, beside the payments backend
InitEarnings ==
    /\ \E a \in Accounts : storage = SignedIn(a)
    /\ route = "earnings"
    /\ InitIdle

NextEarnings == EarningsStep \/ BankStep

SpecEarnings == InitEarnings /\ [][NextEarnings]_vars

\* the pages that submit an operation, one of them shown in the tab: the login
\* and signup pages of a visitor, the projects and earnings pages of a user
PublicRoutes == {"login", "signup"}

UserRoutes == {"projects", "earnings"}

InitPages ==
    /\ route \in PublicRoutes \cup UserRoutes
    /\ IF route \in PublicRoutes THEN storage = EmptyStorage
       ELSE \E a \in Accounts : storage = SignedIn(a)
    /\ InitIdle

NextPages ==
    \/ LoginPageStep
    \/ ProjectsPageStep
    \/ SignupPageStep
    \/ ApiOk
    \/ ApiFails
    \/ EarningsStep
    \/ route = "earnings" /\ BankStep

SpecPages == InitPages /\ [][NextPages]_vars

\* the backend's project and task operations, each handled in one piece
NextLifecycle == ProjectStep \/ TaskStep

\* claimTask requests of several annotators in flight at once, on the tasks of
\* a project being filled
NextClaimRace ==
    \/ \E spec \in ProjectSpecs : createProject("cl1", spec)
    \/ \E id \in ProjectIds, n \in TaskIds, requester \in Clients : addTasks(id, n, requester)
    \/ \E annotator \in Annotators, i \in TaskIds : ClaimArrives(annotator, i)
    \/ \E annotator \in Annotators : ClaimCommits(annotator)
    \/ \E annotator \in Annotators : ClaimReturns(annotator)

SpecClaimRace == Init /\ [][NextClaimRace]_vars

\* sync runs on a project that is being filled with tasks
NextSync ==
    \/ \E spec \in ProjectSpecs : createProject("cl1", spec)
    \/ \E id \in ProjectIds, n \in TaskIds, requester \in Clients : addTasks(id, n, requester)
    \/ \E id \in ProjectIds : SyncStart(id)
    \/ SyncStep

SpecSync == Init /\ [][NextSync]_vars

SpecLifecycle == Init /\ [][NextLifecycle]_vars

\* ------------------------------------------------------------------ claims
\* the REST table of the interface description: which api.* functions reach an
\* endpoint marked authenticated
RestAuthenticated == {"createProject", "getProjects", "getProject", "updateProject",
                      "deleteProject", "activateProject", "addTasks", "getTasks",
                      "syncWithLabelStudio"}

RestUnauthenticated == {"health", "getLanguages", "getLanguage", "getLanguagesByRegion",
                        "createAnnotator", "getAnnotators", "getAnnotator", "getStats"}

\* a step in which a request that carried the bearer token is answered with 401
Answered401 ==
    \/ \E c \in AuthCallIds : /\ authCalls[c].pc = "me_fetch"
                              /\ authCalls'[c].pc = "settled"
                              /\ authCalls'[c].status = 401
    \/ /\ apiCall.pc = "awaiting"
       /\ apiCall.authorization /= Null
       /\ apiCall'.pc = "settled"
       /\ apiCall'.status = 401

\* C1: whenever a request sent with the stored bearer token is answered with
\* HTTP 401, the stored token and the stored user profile are both absent
\* afterwards, for getCurrentUser() and for every call made through fetchApi.
C1_CredentialsClearedOn401 ==
    [][Answered401 => storage'.token = Null /\ storage'.user = <<>>]_vars

\* C2: once the session is destroyed (logout() returned, or /api/auth/me
\* answered 401), the stored token and the stored user stay absent until a
\* login() or register() started after that succeeds, under every interleaving.
C2_SessionStaysDestroyed ==
    sessionDead => storage.token = Null /\ storage.user = <<>>

\* C7: a request to an endpoint the REST table marks authenticated carries
\* Authorization: Bearer <token> whenever a token is stored when it is sent,
\* and a request to an endpoint marked unauthenticated never carries it.
C7_BearerOnAuthenticatedEndpoints ==
    apiCall.pc = "awaiting" =>
        /\ (apiCall.fn \in RestAuthenticated /\ apiCall.tokenAtSend /= Null)
               => apiCall.authorization = apiCall.tokenAtSend
        /\ apiCall.fn \in RestUnauthenticated => apiCall.authorization = Null

\* C8: DashboardLayout renders its children, and so lets a dashboard page send
\* a request, only when its effect found a stored user profile; when it found
\* none it navigates to /login and keeps showing the loading placeholder.
C8_LayoutGate ==
    /\ ChildrenRendered(layout) => layout.found /\ layout.user /= NoUser
    /\ apiCall.origin = "dashboard" => apiCall.gate /= NoUser
    /\ (layout.mounted /\ layout.effectRan /\ ~layout.found)
           => layout.isLoading /\ layout.nav = "/login"

C8_Witness ==
    /\ ChildrenRendered(layout)
    /\ apiCall.origin = "dashboard"
    /\ apiCall.pc = "awaiting"

\* the message the claim expects login() / register() to reject with
ExpectedAuthMessage(call) ==
    IF call.body.kind = "json" /\ call.body.detail /= Null THEN call.body.detail
    ELSE IF call.op = "login" THEN "Login failed" ELSE "Registration failed"

\* C10: a failed backend call is rejected with a human-readable message after
\* exactly one HTTP request: fetchApi with the body's detail, or with
\* 'An error occurred' when the body is not JSON; login() and register() with
\* the detail, or with 'Login failed' / 'Registration failed' otherwise, also
\* when the body is not JSON.
C10_RejectedWithMessage ==
    /\ (apiCall.pc = "settled" /\ apiCall.result = "rejected") =>
          /\ apiCall.sent = 1
          /\ (apiCall.body.kind = "json" /\ apiCall.body.detail /= Null)
                 => apiCall.message = apiCall.body.detail
          /\ apiCall.body.kind = "text" => apiCall.message = "An error occurred"
    /\ \A c \in AuthCallIds :
          (authCalls[c].pc = "settled" /\ authCalls[c].result = "rejected") =>
              /\ authCalls[c].sent = 1
              /\ authCalls[c].message = ExpectedAuthMessage(authCalls[c])

\* the withdrawal requests of the page that await their answer
InFlight == {r \in RunIds : runs[r].pc = "withdraw_sent"}

\* C3: withdrawals of one annotator are serialized and safe against double
\* submission: at most one requestWithdrawal call of the page is in flight,
\* triggering Withdraw again for the same entered amount initiates at most one
\* payout, and the payouts never exceed the available balance.
C3_NoDoubleWithdrawal ==
    /\ Cardinality(InFlight) <= 1
    /\ hist.payoutsForEntry <= 1
    /\ bank.available >= 0

\* handleWithdraw is invoked in this step
WithdrawClicked == hist'.tick /= hist.tick

\* the entered amount is not a number, is <= 0 or exceeds the loaded balance
InvalidAmount(e) ==
    LET amount == parseFloat(e.withdrawAmount) IN
    isNaN(amount) \/ amount.cents <= 0 \/ amount.cents > Available(e)

\* the backend answers the withdrawal request of run r in this step
Served(r) ==
    /\ runs[r].pc = "withdraw_sent" /\ runs[r].resp.kind = "none"
    /\ runs'[r].pc = "withdraw_sent" /\ runs'[r].resp.kind /= "none"

\* C4: a withdrawal whose amount is not a number, is <= 0 or exceeds the
\* available balance is rejected with a validation error and the balance is
\* unchanged; handleWithdraw answers such an amount with an error message,
\* sends no request and leaves the displayed earnings as they are.
C4_InvalidAmountRejected ==
    [][ /\ (WithdrawClicked /\ InvalidAmount(ep)) =>
              /\ ep'.message.type = "error"
              /\ runs' = runs
              /\ ep'.earnings = ep.earnings
              /\ ep'.withdrawAmount = ep.withdrawAmount
              /\ bank' = bank
        /\ \A r \in RunIds :
              (Served(r) /\ (runs[r].amount <= 0 \/ runs[r].amount > bank.available)) =>
                  /\ runs'[r].resp.kind = "error"
                  /\ runs'[r].resp.text = "Invalid withdrawal amount"
                  /\ bank' = bank
      ]_vars

C4_Witness ==
    /\ ep.message.type = "error"
    /\ ep.message.text[1] = "Maximum available: $"
    /\ parseFloat(ep.withdrawAmount).cents > Available(ep)
    /\ InFlight = {}

EndsAfterAccepted(r) == runs[r].pc = "refresh_sent" /\ runs'[r].pc = "idle"

\* a payout is initiated for run r in this step, and decrements by its amount
PayoutExact(r) ==
    (Served(r) /\ runs'[r].resp.kind = "ok") =>
        /\ bank'.available = bank.available - runs[r].amount
        /\ bank'.payouts = bank.payouts + 1

\* C6: a successful requestWithdrawal(amount) decrements available by exactly
\* amount, and the earnings page then shows the server-confirmed balance: the
\* earnings it re-read after the withdrawal.
C6_ShowsConfirmedBalance ==
    [][\A r \in RunIds :
          /\ PayoutExact(r)
          /\ EndsAfterAccepted(r) =>
                runs[r].resp.kind = "ok" /\ ep'.earnings = runs[r].resp.earnings
      ]_vars

\* C6 as amended: available is decremented by exactly amount; the page never
\* computes a balance itself: its earnings change only to what loadData set or
\* to the earnings a getEarnings answer carried; after an accepted withdrawal
\* it shows the re-read earnings when that call succeeded, and keeps the
\* earnings loaded before (under an error message) when it failed.
C6_BalanceOnlyFromServer ==
    [][ /\ \A r \in RunIds :
              /\ PayoutExact(r)
              /\ EndsAfterAccepted(r) =>
                    \/ runs[r].resp.kind = "ok" /\ ep'.earnings = runs[r].resp.earnings
                    \/ ep'.earnings = ep.earnings /\ ep'.message.type = "error"
        /\ ep'.earnings /= ep.earnings =>
              \/ ep.loadPc = "loading" /\ ep'.earnings \in {<<EarningsOf(bank)>>, <<DefaultEarnings>>}
              \/ \E r \in RunIds : /\ EndsAfterAccepted(r)
                                   /\ runs[r].resp.kind = "ok"
                                   /\ ep'.earnings = runs[r].resp.earnings
      ]_vars

C6_Witness ==
    /\ bank.payouts >= 1
    /\ \A r \in RunIds : runs[r].pc = "idle"
    /\ ep.message.type = "success"
    /\ ~ep.isWithdrawing
    /\ Available(ep) = bank.available
    /\ ep.earnings[1].total_earned > Available(ep)

\* the await of a page's submit handler ends with a rejection in this step
LoginRejected ==
    /\ lp.pc = "awaiting" /\ lp'.pc = "idle"
    /\ authCalls[1].pc = "settled" /\ authCalls[1].result = "rejected"

ModalRejected ==
    /\ cm.pc = "awaiting" /\ cm'.pc = "idle"
    /\ apiCall.origin = "modal" /\ apiCall.pc = "settled" /\ apiCall.result = "rejected"

SignupRejected ==
    /\ sp.pc \in {"awaiting_annotator", "awaiting_client"} /\ sp'.pc = "idle"
    /\ apiCall.origin = "signup" /\ apiCall.pc = "settled" /\ apiCall.result = "rejected"

WithdrawalRejected(r) ==
    /\ runs[r].pc = "withdraw_sent" /\ runs'[r].pc = "idle"

\* the message the rejected withdrawal of run r carries: the backend's detail,
\* or the text of the failed fetch
WithdrawalMessages(r) ==
    {<<"Failed to fetch">>} \cup
    (IF runs[r].resp.kind = "error" THEN {<<runs[r].resp.text>>} ELSE {})

\* C9: when a submitted operation (login, create project, signup, withdrawal)
\* is rejected, the page shows the rejection's message verbatim in its inline
\* error banner and leaves every entered form value unchanged: the modal or
\* form stays open and the typed amount or fields are kept.
C9_RejectionShownFormKept ==
    [][ /\ LoginRejected =>
              /\ Banner(lp'.error) = <<authCalls[1].message>>
              /\ lp'.formData = lp.formData
              /\ lp'.mounted /\ lp'.nav = Null
        /\ ModalRejected =>
              /\ Banner(cm'.error) = <<apiCall.message>>
              /\ cm'.formData = cm.formData
              /\ pp'.showCreateModal
        /\ SignupRejected =>
              /\ Banner(sp'.error) = <<apiCall.message>>
              /\ sp'.formData = sp.formData
              /\ sp'.step = sp.step /\ sp'.role = sp.role /\ sp'.nav = Null
        /\ \A r \in RunIds : WithdrawalRejected(r) =>
              /\ ep'.message.type = "error"
              /\ \E text \in WithdrawalMessages(r) :
                     MessageBanner(ep'.message) = <<text>>
              /\ ep'.withdrawAmount = ep.withdrawAmount
              /\ WithdrawFormRendered(ep')
      ]_vars

\* the statuses under which a task has an assignee
AssignedStatuses == {"assigned", "in_progress", "submitted", "under_review", "approved",
                     "rejected"}

\* C12: in every reachable state and for every task, assigned_to is non-null
\* if and only if the status is one of assigned, in_progress, submitted,
\* under_review, approved, rejected; it is null exactly when the status is
\* available.
C12_AssigneeIffTaken ==
    \A i \in DOMAIN tasks :
        /\ tasks[i].assigned_to /= Null <=> tasks[i].status \in AssignedStatuses
        /\ tasks[i].assigned_to = Null <=> tasks[i].status = "available"

C12_Witness ==
    /\ reply = Ok("reviewTask")
    /\ \E i \in DOMAIN tasks : tasks[i].status = "available" /\ tasks[i].assigned_to = Null
    /\ \E i \in DOMAIN tasks : tasks[i].status = "approved" /\ tasks[i].assigned_to /= Null
    /\ \A id \in DOMAIN projects : projects[id].completed_tasks = 1

\* the tasks of project id that have status s
TasksIn(ts, id, s) == {i \in DOMAIN ts : ts[i].project_id = id /\ ts[i].status = s}

\* the tasks of project id
TasksOfProject(ts, id) == {i \in DOMAIN ts : ts[i].project_id = id}

\* C13: for every project completed_tasks <= total_tasks in every reachable
\* state; total_tasks increases only through bulk task addition, by the number
\* of tasks added, and completed_tasks increases only when a task's status
\* reaches approved.
C13_CountersOrdered ==
    /\ [](\A id \in DOMAIN projects : projects[id].completed_tasks <= projects[id].total_tasks)
    /\ [][\A id \in DOMAIN projects :
             /\ projects'[id].total_tasks >= projects[id].total_tasks
             /\ projects'[id].completed_tasks >= projects[id].completed_tasks
             /\ projects'[id].total_tasks - projects[id].total_tasks
                    = Cardinality(TasksOfProject(tasks', id)) - Cardinality(TasksOfProject(tasks, id))
             /\ projects'[id].completed_tasks - projects[id].completed_tasks
                    = Cardinality(TasksIn(tasks', id, "approved"))
                          - Cardinality(TasksIn(tasks, id, "approved"))
       ]_vars

C13_Witness ==
    \E id \in DOMAIN projects :
        /\ projects[id].total_tasks = 2
        /\ projects[id].completed_tasks = 2
        /\ Cardinality(TasksIn(tasks, id, "approved")) = 2

\* C14: rejecting a task that is under_review returns it to status available
\* with assigned_to cleared, and leaves the owning project's completed_tasks
\* unchanged.
C14_RejectRequeues ==
    [][\A i \in DOMAIN tasks :
          (tasks[i].status = "under_review" /\ tasks'[i].status \notin {"under_review", "approved"}) =>
              /\ tasks'[i].status = "available"
              /\ tasks'[i].assigned_to = Null
              /\ projects' = projects
      ]_vars

C14_Witness ==
    /\ reply = Ok("reviewTask")
    /\ \E i \in DOMAIN tasks : tasks[i].status = "available"
    /\ \A id \in DOMAIN projects : projects[id].completed_tasks = 0

\* the transitions of the task pipeline as the data model states them
Pipeline ==
    {<<"available", "assigned">>, <<"assigned", "in_progress">>,
     <<"in_progress", "submitted">>, <<"submitted", "under_review">>,
     <<"under_review", "approved">>, <<"under_review", "rejected">>,
     <<"rejected", "available">>}

\* the transitions the task operations make
OperationTransitions ==
    {<<"available", "assigned">>, <<"assigned", "in_progress">>,
     <<"assigned", "submitted">>, <<"in_progress", "submitted">>,
     <<"submitted", "under_review">>, <<"under_review", "approved">>,
     <<"under_review", "available">>}

TableStep ==
    \A id \in DOMAIN projects :
        projects'[id].status /= projects[id].status =>
            <<projects[id].status, projects'[id].status>> \in LegalTransitions

\* activateProject answers success only for a draft project, which it makes
\* active, and any failure of it leaves every project as it was
ActivateStep ==
    reply'.op = "activateProject" =>
        /\ reply'.error = Null =>
               \E id \in DOMAIN projects :
                   /\ projects[id].status = "draft"
                   /\ projects' = [projects EXCEPT ![id].status = "active"]
        /\ reply'.error /= Null => projects' = projects
        /\ reply'.error = "InvalidStateTransition" =>
               \E id \in DOMAIN projects : projects[id].status /= "draft"

\* every declared status other than draft (the initial one) and cancelled
\* (entered from any status) is the target of a transition of the table
DeclaredStatusesInTable ==
    \A s \in ProjectStatuses \ {"draft", "cancelled"} :
        \E t \in LegalTransitions : t[2] = s

Approves(i) == tasks[i].status = "under_review" /\ tasks'[i].status = "approved"

\* C18: a project is created in draft with no tasks, adding three tasks makes
\* total_tasks 3, activation makes it active, and the approval of one claimed
\* and submitted task makes completed_tasks 1 with total_tasks still 3 and
\* raises the annotator's available earnings by exactly the project's
\* price_per_task.
C18_LifecycleCounts ==
    [][/\ \A id \in DOMAIN projects' \ DOMAIN projects :
              /\ projects'[id].status = "draft"
              /\ projects'[id].total_tasks = 0
              /\ projects'[id].completed_tasks = 0
       /\ \A id \in DOMAIN projects :
              projects'[id].total_tasks - projects[id].total_tasks
                  = Cardinality(TasksOfProject(tasks', id)) - Cardinality(TasksOfProject(tasks, id))
       /\ \A i \in DOMAIN tasks :
              Approves(i) =>
                  LET id == tasks[i].project_id
                      annotator == tasks[i].assigned_to
                  IN /\ projects'[id].completed_tasks = projects[id].completed_tasks + 1
                     /\ projects'[id].total_tasks = projects[id].total_tasks
                     /\ Earnings(annotator)'.available
                            = Earnings(annotator).available + projects[id].price_per_task
                     /\ \A other \in Annotators \ {annotator} :
                            Earnings(other)' = Earnings(other)
      ]_vars

C18_Witness ==
    /\ reply = Ok("reviewTask")
    /\ \E id \in DOMAIN projects :
           /\ projects[id].status = "active"
           /\ projects[id].total_tasks = 3
           /\ projects[id].completed_tasks = 1
           /\ projects[id].price_per_task = 20
    /\ Cardinality(TasksOf("an1", {"approved"})) = 1
    /\ Earnings("an1").available = 20
    /\ \A i \in DOMAIN tasks : tasks[i].status \in {"approved", "available"}

\* two requests decided while both claimed task i, seen available by both
RacedFor(a, b, i) ==
    /\ a /= b
    /\ claimReqs[a].pc = "done" /\ claimReqs[b].pc = "done"
    /\ claimReqs[a].task = i /\ claimReqs[b].task = i
    /\ claimReqs[a].read = "available" /\ claimReqs[b].read = "available"

\* C11: when two annotators claim the same available task concurrently,
\* exactly one claim succeeds and the other is answered ConflictError, and the
\* task has exactly one assignee, the winner.
C11_OneClaimWins ==
    \A a, b \in Annotators, i \in DOMAIN tasks :
        RacedFor(a, b, i) =>
            /\ {claimReqs[a].result, claimReqs[b].result} = {"ok", "ConflictError"}
            /\ tasks[i].status = "assigned"
            /\ claimReqs[a].result = "ok" => tasks[i].assigned_to = a
            /\ claimReqs[b].result = "ok" => tasks[i].assigned_to = b

C11_Witness ==
    /\ RacedFor("an1", "an2", 1)
    /\ claimReqs["an2"].result = "ok"
    /\ claimReqs["an1"].result = "ConflictError"

\* project id and all its tasks have their external ids
Synced(id) ==
    /\ projects[id].label_studio_project_id /= NoExtId
    /\ Unpushed(id) = {}

\* the stored external ids
StoredExternalIds ==
    <<[id \in DOMAIN projects |-> projects[id].label_studio_project_id],
      [i \in DOMAIN tasks |-> tasks[i].label_studio_task_id]>>

\* every external task record is the one its local task stores the id of
SingleTracked ==
    /\ \A k \in DOMAIN ext.tasks : tasks[ext.tasks[k]].label_studio_task_id = k
    /\ \A k \in DOMAIN ext.projects : projects[ext.projects[k]].label_studio_project_id = k

\* C17: every step of a sync run on a project that is already synced (no
\* local change since the last sync) creates no external project and no
\* external task and leaves every stored label_studio_project_id and
\* label_studio_task_id unchanged; no task is ever tracked under two external
\* ids.
C17_SyncIdempotent ==
    /\ []SingleTracked
    /\ [][(syncRun' /= syncRun /\ syncRun'.pc /= "idle" /\ Synced(syncRun'.project)) =>
              /\ ext' = ext
              /\ StoredExternalIds' = StoredExternalIds
              /\ syncRun'.synced_tasks = syncRun.synced_tasks
       ]_vars

C17_Witness ==
    /\ syncRun.pc = "done" /\ syncRun.synced_tasks = 0 /\ syncRun.is_available
    /\ Len(ext.tasks) = 2 /\ Len(ext.projects) = 1
    /\ Synced(syncRun.project)

\* a createProject request of a page is on its way with data d
SendsProject(d) ==
    /\ apiCall.fn = "createProject" /\ apiCall.pc = "awaiting"
    /\ apiCall.payload = <<d>>

\* the data pass the checks createProject makes on the texts and the price
ProjectDataComplete(d) ==
    /\ d.name /= "" /\ d.description /= "" /\ d.instructions /= ""
    /\ d.language_code /= ""
    /\ ~isNaN(d.price_per_task) /\ d.price_per_task.cents > 0

\* the answers of createProject: a success stores one more project, in draft
\* with no tasks, a known language and a positive price; a validation error
\* stores nothing
CreateProjectStep ==
    /\ reply' = Ok("createProject") /\ reply' /= reply =>
           /\ Len(projects') = Len(projects) + 1
           /\ SubSeq(projects', 1, Len(projects)) = projects
           /\ LET new == projects'[Len(projects')]
              IN /\ new.status = "draft" /\ new.total_tasks = 0
                 /\ new.language_code \in LanguageCodes /\ new.price_per_task > 0
    /\ reply' = Failed("createProject", "ValidationError") => projects' = projects

\* C19: createProject yields a project in draft with total_tasks 0 and answers
\* a validation error, storing nothing, for an unknown language_code, a price
\* <= 0 or an empty required text; no createProject request of the create
\* project modal or of the client signup carries an empty name, description,
\* instructions or language_code, or a price that is not positive.
C19_ProjectDataValid ==
    /\ [](\A d \in {apiCall.payload[k] : k \in DOMAIN apiCall.payload} :
             SendsProject(d) => ProjectDataComplete(d))
    /\ [][CreateProjectStep]_vars

\* the page holds a not-connected status: no account id, every flag false, no
\* requirements, a prompt
NotConnectedShown(e) ==
    /\ e.connectStatus /= <<>>
    /\ LET status == e.connectStatus[1]
       IN /\ status.account_id = Null
          /\ ~status.is_connected /\ ~status.charges_enabled
          /\ ~status.payouts_enabled /\ ~status.details_submitted
          /\ status.requirements_due = <<>>
          /\ status.message \notin {Null, ""}

\* loadData comes to its end in this step
LoadEnds == ep.loadPc = "loading" /\ ep'.loadPc = "done"

\* loadData ends with the defaults of its catch
LoadFailed == LoadEnds /\ ep'.connectStatus = <<DefaultConnectStatus>>

\* no withdrawal is requested in this step
NoWithdrawalSent == \A r \in RunIds : runs'[r].pc = "withdraw_sent" => runs[r].pc = "withdraw_sent"

\* C20: when the annotator has no connected account, or the payment data
\* cannot be loaded, the page's connect status is the not-connected status
\* (account_id null, the four flags false, no requirements, a prompt) and its
\* earnings are 0 total, 0 pending, 0 available; in that state no withdrawal
\* can be requested, and the page finishes loading.
C20_NotConnectedDefaults ==
    [][/\ (LoadEnds /\ (bank.account = "none" \/ LoadFailed)) =>
              /\ NotConnectedShown(ep')
              /\ ep'.earnings = <<DefaultEarnings>>
              /\ ~ep'.isLoading
              /\ ~WithdrawFormRendered(ep')
       /\ NotConnectedShown(ep) => NoWithdrawalSent
      ]_vars

\* C20 as amended: when the payment data cannot be loaded, the page's connect
\* status is the default not-connected status and its earnings are 0 total, 0
\* pending, 0 available; when the annotator has no connected account, the
\* status loaded is a not-connected status too, and the earnings are the ones
\* the backend reports; in either state no withdrawal can be requested, and
\* the page finishes loading.
C20_NotConnectedNoWithdrawal ==
    [][/\ LoadEnds =>
              /\ ~ep'.isLoading
              /\ ep'.earnings \in {<<DefaultEarnings>>, <<EarningsOf(bank)>>}
              /\ LoadFailed => ep'.earnings = <<DefaultEarnings>>
              /\ (bank.account = "none" \/ LoadFailed) =>
                     NotConnectedShown(ep') /\ ~WithdrawFormRendered(ep')
       /\ NotConnectedShown(ep) => NoWithdrawalSent
      ]_vars

C20_Witness ==
    /\ ep.loadPc = "done" /\ ~ep.isLoading
    /\ ep.connectStatus = <<DefaultConnectStatus>> /\ ep.earnings = <<DefaultEarnings>>
    /\ bank.account = "enabled" /\ bank.available > 0

\* call c, made as op, settles in this step with result res
Settles(c, op, res) ==
    /\ authCalls[c].op = op /\ authCalls[c].pc /= "settled"
    /\ authCalls'[c].pc = "settled" /\ authCalls'[c].result = res

\* C21: a successful register() stores the returned access token as the
\* session token and the returned profile as the cached user; a rejected
\* registration throws and leaves the stored token and the stored user as they
\* were.
C21_RegisterStoresOrKeeps ==
    [][\A c \in AuthCallIds :
          /\ Settles(c, "register", "resolved") =>
                 /\ getToken(storage') = RegisterResult(authCalls[c].account).access_token
                 /\ getStoredUser(storage') = RegisterResult(authCalls[c].account)
          /\ Settles(c, "register", "rejected") =>
                 /\ storage' = storage
                 /\ authCalls'[c].message \notin {Null, ""}
      ]_vars

C21_Witness ==
    \E c \in AuthCallIds :
        /\ authCalls[c].op = "register" /\ authCalls[c].pc = "settled"
        /\ authCalls[c].result = "rejected" /\ authCalls[c].account = "B"
        /\ getToken(storage) = TokenOf("A")
        /\ getStoredUser(storage) = ProfileOf(TokenOf("A"))

\* C22: in every reachable state a cached user profile is stored only if a
\* token is stored, under every interleaving of login(), register(), logout()
\* and getCurrentUser().
C22_UserOnlyWithToken ==
    storage.user /= <<>> => storage.token /= Null

\* C23: the cached user profile belongs to the account of the stored token,
\* and when login() as an account resolves the stored user is that account's
\* profile, also when the /api/auth/me call inside login() fails with a status
\* other than 401.
C23_UserOfStoredToken ==
    /\ []((storage.user /= <<>> /\ storage.token /= Null) =>
              getStoredUser(storage).id = AccountOf(storage.token))
    /\ [][\A c \in AuthCallIds :
             (Settles(c, "login", "resolved") /\ authCalls'[c].status /= 401) =>
                 getStoredUser(storage').id = authCalls[c].account
       ]_vars

\* C24: whenever login() resolves without throwing, a token and a user profile
\* are stored (isAuthenticated() is true and getStoredUser() is non-null), so
\* the navigation to /dashboard that follows passes the DashboardLayout gate
\* and is not sent back to /login.
C24_ResolvedLoginPassesGate ==
    /\ lp.nav = "/dashboard" => isAuthenticated(storage) /\ getStoredUser(storage) /= NoUser
    /\ (route = "dashboard" /\ layout.effectRan) => layout.found /\ layout.nav /= "/login"

\* C25: a withdrawal the backend accepted is never reported as failed: once
\* api.requestWithdrawal resolved, the amount field is cleared and
\* handleWithdraw ends with the success message shown, whatever the outcome of
\* the earnings refresh that follows.
C25_AcceptedNeverReportedFailed ==
    [][\A r \in RunIds :
          /\ (runs[r].pc = "withdraw_sent" /\ runs'[r].pc = "refresh_sent") =>
                 ep'.withdrawAmount = <<>> /\ ep'.message.type = "success"
          /\ EndsAfterAccepted(r) => ep'.message.type = "success"
      ]_vars

\* C26: the client signup navigates to the success page only after a
\* createProject request succeeded: every step of the signup page that asks for
\* /signup/success?type=client ends an await of createProject that resolved.
C26_ClientSuccessAfterProject ==
    [][(sp.nav = Null /\ sp'.nav = "/signup/success?type=client") =>
           /\ sp.pc = "awaiting_client"
           /\ apiCall.fn = "createProject" /\ apiCall.pc = "settled"
           /\ apiCall.result = "resolved"
      ]_vars

\* C27: the signup wizard never sends createAnnotator with an empty languages
\* list, whatever role switches, step changes and language toggles came before.
C27_AnnotatorHasLanguages ==
    (apiCall.fn = "createAnnotator" /\ apiCall.pc = "awaiting") =>
        /\ apiCall.payload /= <<>>
        /\ apiCall.payload[1].languages /= <<>>

\* createAnnotator is in flight from a form that was in the client role before
\* (its company name is filled in) and had a language taken out again
C27_Witness ==
    /\ apiCall.fn = "createAnnotator" /\ apiCall.pc = "awaiting"
    /\ sp.pc = "awaiting_annotator" /\ sp.formData.companyName /= ""
    /\ apiCall.payload[1].languages = <<"yo">>

\* a handler's await is over in this step
LoginSettled == lp.pc = "awaiting" /\ lp'.pc = "idle"

ModalSettled == cm.pc = "awaiting" /\ cm'.pc = "idle"

SignupSettled == sp.pc \in {"awaiting_annotator", "awaiting_client"} /\ sp'.pc = "idle"

WithdrawSettled(r) == runs[r].pc /= "idle" /\ runs'[r].pc = "idle"

\* an in-progress flag is set only while its handler is in flight
FlagOnlyInFlight ==
    /\ lp.isLoading => lp.pc = "awaiting"
    /\ cm.isLoading => cm.pc = "awaiting"
    /\ sp.isLoading => sp.pc \in {"awaiting_annotator", "awaiting_client"}
    /\ ep.isWithdrawing => \E r \in RunIds : runs[r].pc /= "idle"

\* the requests in flight are answered and the awaits waiting for them go on
Answered ==
    \/ LoginFails(1) \/ LoginTokenStored(1) \/ MeOk(1) \/ MeFails(1)
    \/ ApiOk \/ ApiFails
    \/ \E r \in RunIds : ServeWithdrawal(r) \/ ServeEarnings(r)

Resumed ==
    \/ LoginPageResolved \/ LoginPageCaught
    \/ ModalCreated \/ ModalCaught
    \/ SignupResolved \/ SignupCaught
    \/ \E r \in RunIds : WithdrawResolved(r) \/ WithdrawRejected(r)
                            \/ RefreshResolved(r) \/ RefreshRejected(r)

\* the signup wizard with its text inputs left as they are: role, step and
\* language controls, submission and what follows it
SignupWizardStep ==
    \/ \E initialRole \in {"annotator", "client"} : SignupMount(initialRole)
    \/ \E r \in {"annotator", "client"} : SetRole(r)
    \/ \E n \in {1, 2} : SetStep(n)
    \/ \E langCode \in LanguageCodes : handleLanguageToggle(langCode)
    \/ \E langCode \in LanguageCodes, proficiency \in ProficiencyLevels :
           handleProficiencyChange(langCode, proficiency)
    \/ SignupSubmit
    \/ SignupResolved
    \/ SignupCaught
    \/ SignupLeave

NextSubmit ==
    \/ LoginPageStep
    \/ ProjectsPageStep
    \/ SignupWizardStep
    \/ ApiOk
    \/ ApiFails
    \/ EarningsStep
    \/ route = "earnings" /\ BankStep

\* the pages with every request answered in the end and every settled await
\* resumed (the event loop runs the continuation of a settled promise)
FairSubmit ==
    InitPages /\ [][NextSubmit]_vars /\ WF_vars(Answered) /\ WF_vars(Resumed)

\* C28: every submit handler that sets its in-progress flag (isLoading of the
\* login form, the create-project modal and the signup wizard, isWithdrawing
\* of handleWithdraw) sets it back to false when its request settles, by
\* success and by failure alike, and the flag is then false again: the submit
\* control is re-enabled after every attempt.
C28_FlagResetOnSettle ==
    /\ [](FlagOnlyInFlight)
    /\ [][/\ LoginSettled => ~lp'.isLoading
          /\ ModalSettled => ~cm'.isLoading
          /\ SignupSettled => ~sp'.isLoading
          /\ \A r \in RunIds : WithdrawSettled(r) => ~ep'.isWithdrawing
         ]_vars
    /\ lp.isLoading ~> ~lp.isLoading
    /\ cm.isLoading ~> ~cm.isLoading
    /\ sp.isLoading ~> ~sp.isLoading
    /\ ep.isWithdrawing ~> ~ep.isWithdrawing

\* the signup form after a rejected attempt: the error is shown and the submit
\* button is enabled again
C28_Witness ==
    /\ sp.error /= Null /\ sp.pc = "idle" /\ ~sp.isLoading
    /\ SignupSubmitEnabled(sp)

\* the signup wizard alone in the tab
InitWizard ==
    /\ route = "signup" /\ storage = EmptyStorage
    /\ InitIdle

NextWizard == SignupWizardStep \/ ApiOk \/ ApiFails

SpecWizard == InitWizard /\ [][NextWizard]_vars

\* the set of the selected codes
CodeSet(languages) == {languages[i].code : i \in DOMAIN languages}

NoDuplicateCodes(languages) ==
    \A i, j \in DOMAIN languages : languages[i].code = languages[j].code => i = j

\* the entries of a list other than those of one code, in their order
Others(languages, langCode) ==
    SelectSeq(languages, LAMBDA l : l.code /= langCode)

\* the wizard stays on screen and its languages list changes
LanguagesChange ==
    /\ sp.mounted /\ sp'.mounted
    /\ sp'.formData.languages /= sp.formData.languages

\* C29: after any sequence of handleLanguageToggle and handleProficiencyChange
\* the selected-languages list has no two entries with the same code; a toggle
\* adds or removes one code and leaves the other entries alone, and toggling
\* the same code again restores the previous set of selected codes; a
\* proficiency change keeps every code and changes the proficiency of the
\* named code only.
C29_LanguagesListWellFormed ==
    /\ [](NoDuplicateCodes(sp.formData.languages))
    /\ [][LanguagesChange =>
            LET old == sp.formData.languages
                new == sp'.formData.languages
            IN \E c \in LanguageCodes :
                  /\ Others(new, c) = Others(old, c)
                  /\ \/ /\ CodeSet(new) = CodeSet(old) \cup {c} /\ c \notin CodeSet(old)
                        /\ CodeSet(ToggledLanguages(new, c)) = CodeSet(old)
                     \/ /\ CodeSet(new) = CodeSet(old) \ {c} /\ c \in CodeSet(old)
                        /\ CodeSet(ToggledLanguages(new, c)) = CodeSet(old)
                     \/ /\ Len(new) = Len(old)
                        /\ \A i \in DOMAIN old : new[i].code = old[i].code
         ]_vars

\* both languages selected, the first one with its proficiency changed
C29_Witness ==
    /\ sp.mounted /\ Len(sp.formData.languages) = 2
    /\ sp.formData.languages[1] = [code |-> "yo", proficiency |-> "fluent"]
    /\ sp.formData.languages[2] = [code |-> "sw", proficiency |-> "native"]

\* createAnnotator is sent in this step
SendsAnnotator ==
    /\ apiCall.pc = "idle"
    /\ apiCall'.pc = "awaiting" /\ apiCall'.fn = "createAnnotator"

\* C30: in the annotator signup request is_native_speaker is true exactly when
\* at least one selected language has proficiency 'native', and the languages
\* sent are the codes of the selected entries in selection order; a language
\* toggled on is put last with proficiency 'native'.
C30_AnnotatorRequestFromSelection ==
    [][LET old == sp.formData.languages
           new == sp'.formData.languages
       IN /\ SendsAnnotator =>
                /\ apiCall'.payload[1].is_native_speaker =
                       (\E i \in 1..Len(old) : old[i].proficiency = "native")
                /\ apiCall'.payload[1].languages = [i \in 1..Len(old) |-> old[i].code]
          /\ (LanguagesChange /\ Len(new) > Len(old)) =>
                /\ new[Len(new)].proficiency = "native"
                /\ SubSeq(new, 1, Len(old)) = old
      ]_vars

\* a request in flight for two languages, of which only the second is native
C30_Witness ==
    /\ apiCall.pc = "awaiting" /\ apiCall.fn = "createAnnotator"
    /\ apiCall.payload[1].languages = <<"yo", "sw">>
    /\ apiCall.payload[1].is_native_speaker
    /\ sp.formData.languages[1].proficiency = "fluent"

====
